---- MODULE Spec2Model ----
(***************************************************************************)
(* Price-list ingestion of the storefront backend: parsePriceData,         *)
(* validatePriceData and updatePrices of backend/src/services/             *)
(* priceParser.ts, and the two handlers POST /api/upload/prices and        *)
(* POST /api/upload/prices/preview of backend/src/api/upload.ts, run       *)
(* against the products and price_history tables of                        *)
(* supabase/storage_setup.sql.                                             *)
(*                                                                         *)
(* A JavaScript string is a sequence of characters, each character a       *)
(* TLA+ string of length one; characters outside ASCII are written as      *)
(* tokens ("RUBLE" for U+20BD, "EURO" for U+20AC, "NDASH" for U+2013,      *)
(* "cyr_r" "cyr_u" "cyr_b" ... for the Cyrillic letters of the currency    *)
(* word and of the header keywords, "CYR_R" ... in upper case).  A price   *)
(* is an integer number of thousandths of the currency unit, so that       *)
(* "12,5" is 12500.  Absent (undefined) and empty strings are both the     *)
(* empty sequence: the code only ever tests them for truthiness.           *)
(***************************************************************************)
EXTENDS Integers, Sequences, FiniteSets, TLC

\* ------------------------------------------------------------------------
\* Characters and strings
\* ------------------------------------------------------------------------

UpperCase == <<"A","B","C","D","E","F","G","H","I","J","K","L","M",
               "N","O","P","Q","R","S","T","U","V","W","X","Y","Z",
               "CYR_R","CYR_U","CYR_B","CYR_A","CYR_T","CYR_I","CYR_K",
               "CYR_L","CYR_N","CYR_Z","CYR_V","CYR_E","CYR_C">>

LowerCase == <<"a","b","c","d","e","f","g","h","i","j","k","l","m",
               "n","o","p","q","r","s","t","u","v","w","x","y","z",
               "cyr_r","cyr_u","cyr_b","cyr_a","cyr_t","cyr_i","cyr_k",
               "cyr_l","cyr_n","cyr_z","cyr_v","cyr_e","cyr_c">>

Digits == <<"0","1","2","3","4","5","6","7","8","9">>

\* The characters JavaScript's \s and String.prototype.trim treat as blank.
WhiteSpace == {" ", "\t", "\n", "\r"}

Range(s) == {s[i] : i \in DOMAIN s}

IsDigit(c) == \E i \in DOMAIN Digits : Digits[i] = c

DigitValue(c) == (CHOOSE i \in DOMAIN Digits : Digits[i] = c) - 1

\* String.prototype.toLowerCase on one character.
ToLowerChar(c) ==
    IF \E i \in DOMAIN UpperCase : UpperCase[i] = c
    THEN LowerCase[CHOOSE i \in DOMAIN UpperCase : UpperCase[i] = c]
    ELSE c

ToLowerCase(s) == [i \in DOMAIN s |-> ToLowerChar(s[i])]

\* String.prototype.toUpperCase on one character.
ToUpperChar(c) ==
    IF \E i \in DOMAIN LowerCase : LowerCase[i] = c
    THEN UpperCase[CHOOSE i \in DOMAIN LowerCase : LowerCase[i] = c]
    ELSE c

ToUpperCase(s) == [i \in DOMAIN s |-> ToUpperChar(s[i])]

\* String.prototype.trim.
RECURSIVE TrimStart(_)
TrimStart(s) ==
    IF s # <<>> /\ Head(s) \in WhiteSpace THEN TrimStart(Tail(s)) ELSE s

RECURSIVE TrimEnd(_)
TrimEnd(s) ==
    IF s # <<>> /\ s[Len(s)] \in WhiteSpace
    THEN TrimEnd(SubSeq(s, 1, Len(s) - 1)) ELSE s

Trim(s) == TrimEnd(TrimStart(s))

\* String.prototype.includes.
Includes(s, sub) ==
    \E i \in 1..(Len(s) - Len(sub) + 1) : SubSeq(s, i, i + Len(sub) - 1) = sub

\* String.prototype.indexOf for a character of s, 1-based.
IndexOf(s, c) ==
    CHOOSE i \in DOMAIN s : s[i] = c /\ \A j \in 1..(i - 1) : s[j] # c

\* String.prototype.split on a one-character separator: always at least one
\* part, empty parts kept.
RECURSIVE Split(_, _)
Split(s, sep) ==
    IF \A i \in DOMAIN s : s[i] # sep THEN <<s>>
    ELSE <<SubSeq(s, 1, IndexOf(s, sep) - 1)>>
         \o Split(SubSeq(s, IndexOf(s, sep) + 1, Len(s)), sep)

\* String.replace(/[class]/g, '').
RECURSIVE Without(_, _)
Without(s, class) ==
    IF s = <<>> THEN <<>>
    ELSE IF Head(s) \in class THEN Without(Tail(s), class)
         ELSE <<Head(s)>> \o Without(Tail(s), class)

\* ------------------------------------------------------------------------
\* priceParser.ts: parsePrice
\* ------------------------------------------------------------------------

\* The price unit: a price p of the program is the integer p * PriceScale.
PriceScale == 10 * 10 * 10

\* parsePrice's null ("no price").  No price the parser accepts is 0.
NoPrice == 0

\* JavaScript's Infinity, above every finite price of the model.
Infinity == 1000000000

\* The character class of the first replace: /[RUBLE $ EURO cyr_r cyr_u
\* cyr_b \. r u b \s]/gi.  A class lists characters, not words, and the
\* i flag adds both letter cases.
CurrencyClass ==
    {"RUBLE", "$", "EURO", "cyr_r", "cyr_u", "cyr_b", "CYR_R", "CYR_U",
     "CYR_B", ".", "r", "u", "b", "R", "U", "B", " ", "\t", "\n", "\r"}

\* The number of leading decimal digits of s.
RECURSIVE LeadingDigits(_)
LeadingDigits(s) ==
    IF s = <<>> \/ ~IsDigit(Head(s)) THEN 0 ELSE 1 + LeadingDigits(Tail(s))

RECURSIVE DigitsValue(_)
DigitsValue(s) ==
    IF s = <<>> THEN 0
    ELSE 10 * DigitsValue(SubSeq(s, 1, Len(s) - 1)) + DigitValue(s[Len(s)])

RECURSIVE Pow10(_)
Pow10(n) == IF n <= 0 THEN 1 ELSE 10 * Pow10(n - 1)

\* parseFloat reads the longest prefix that is a decimal literal:
\* [+-] digits [. digits] [e [+-] digits], or [+-] Infinity; <<>> is NaN.
\* The value is in thousandths: digits past the third fractional digit are
\* dropped.  The stages below read the literal left to right.

\* The exponent part: e, an optional sign, digits.  Without a digit there is
\* no exponent and the literal ends before the e.
ApplyExponent(mant, digits, count, negative) ==
    IF count = 0 THEN <<mant>>
    ELSE IF negative
    THEN <<mant \div Pow10(DigitsValue(SubSeq(digits, 1, count)))>>
    ELSE <<mant * Pow10(DigitsValue(SubSeq(digits, 1, count)))>>

SignedExponent(mant, t) ==
    IF t # <<>> /\ t[1] = "-"
    THEN ApplyExponent(mant, Tail(t), LeadingDigits(Tail(t)), TRUE)
    ELSE IF t # <<>> /\ t[1] = "+"
    THEN ApplyExponent(mant, Tail(t), LeadingDigits(Tail(t)), FALSE)
    ELSE ApplyExponent(mant, t, LeadingDigits(t), FALSE)

Exponent(mant, tail) ==
    IF tail = <<>> THEN <<mant>>
    ELSE IF tail[1] \in {"e", "E"} THEN SignedExponent(mant, Tail(tail))
    ELSE <<mant>>

\* The fractional digits frac (the first three count) and what follows.
Fraction(whole, frac, tail) ==
    Exponent(whole * PriceScale
             + DigitsValue([i \in 1..3 |-> IF i <= Len(frac) THEN frac[i] ELSE "0"]),
             tail)

\* rest is what follows the intLen integer digits.
AfterInteger(whole, intLen, rest, fracLen) ==
    IF intLen = 0 /\ fracLen = 0 THEN <<>>
    ELSE IF rest # <<>> /\ rest[1] = "."
    THEN Fraction(whole, SubSeq(rest, 2, 1 + fracLen),
                  SubSeq(rest, 2 + fracLen, Len(rest)))
    ELSE Fraction(whole, <<>>, rest)

Unsigned(body, intLen) ==
    AfterInteger(DigitsValue(SubSeq(body, 1, intLen)), intLen,
                 SubSeq(body, intLen + 1, Len(body)),
                 IF intLen < Len(body) /\ body[intLen + 1] = "."
                 THEN LeadingDigits(SubSeq(body, intLen + 2, Len(body)))
                 ELSE 0)

Magnitude(body) ==
    IF Len(body) >= 8 /\ SubSeq(body, 1, 8) = <<"I","n","f","i","n","i","t","y">>
    THEN <<Infinity>>
    ELSE Unsigned(body, LeadingDigits(body))

Negate(value) == IF value = <<>> THEN <<>> ELSE <<0 - value[1]>>

ParseFloat(s) ==
    IF s # <<>> /\ s[1] = "-" THEN Negate(Magnitude(Tail(s)))
    ELSE IF s # <<>> /\ s[1] = "+" THEN Magnitude(Tail(s))
    ELSE Magnitude(s)

\* .replace(/,/g, '.')
CommaToDot(s) == [i \in DOMAIN s |-> IF s[i] = "," THEN "." ELSE s[i]]

\* return isNaN(price) || price <= 0 ? null : price
PriceOrNull(price) ==
    IF price = <<>> THEN NoPrice
    ELSE IF price[1] <= 0 THEN NoPrice ELSE price[1]

\* parsePrice(priceStr): NoPrice for null.
parsePrice(priceStr) ==
    PriceOrNull(ParseFloat(Trim(CommaToDot(Without(priceStr, CurrencyClass)))))

\* ------------------------------------------------------------------------
\* priceParser.ts: parseCSV, parseTextFormat, parsePriceData
\* ------------------------------------------------------------------------

\* A PriceUpdateItem.  article and name are <<>> when undefined or ''.
Item(article, name, price) ==
    [article |-> article, name |-> name, price |-> price]

\* The header keywords: "artikul" and "nazvanie" in Cyrillic, "article",
\* "name".
HeaderWords ==
    { <<"cyr_a","cyr_r","cyr_t","cyr_i","cyr_k","cyr_u","cyr_l">>,
      <<"a","r","t","i","c","l","e">>,
      <<"cyr_n","cyr_a","cyr_z","cyr_v","cyr_a","cyr_n","cyr_i","cyr_e">>,
      <<"n","a","m","e">> }

\* IsHeader without toLowerCase: the keywords in lower case only.
IsHeaderLowerCaseOnly(line) == \E w \in HeaderWords : Includes(line, w)

\* The header test on lines[0].
IsHeader(line) == \E w \in HeaderWords : Includes(ToLowerCase(line), w)

\* The characters of /^[A-Z0-9-_]+$/i
ArticleChars ==
    {UpperCase[i] : i \in 1..26} \cup {LowerCase[i] : i \in 1..26}
    \cup Range(Digits) \cup {"-", "_"}

IsArticle(s) == s # <<>> /\ \A i \in DOMAIN s : s[i] \in ArticleChars

\* The items pushed for a line of three or more parts, and of two.
ThreeParts(parts, price) ==
    IF price = NoPrice THEN <<>> ELSE <<Item(parts[1], parts[2], price)>>

TwoParts(parts, price) ==
    IF price = NoPrice THEN <<>>
    ELSE IF IsArticle(parts[1]) THEN <<Item(parts[1], <<>>, price)>>
    ELSE <<Item(<<>>, parts[1], price)>>

\* PartsItems with the two-field forms (Article;Price, Name;Price) left
\* out.
PartsItemsThreeOnly(parts) ==
    IF Len(parts) >= 3 THEN ThreeParts(parts, parsePrice(parts[3])) ELSE <<>>

\* parts: the trimmed fields of a line.
PartsItems(parts) ==
    IF Len(parts) >= 3 THEN ThreeParts(parts, parsePrice(parts[3]))
    ELSE IF Len(parts) = 2 THEN TwoParts(parts, parsePrice(parts[2]))
    ELSE <<>>

TrimEach(parts) == [i \in DOMAIN parts |-> Trim(parts[i])]

\* The body of parseCSV's loop for one line: the items it pushes.  A blank
\* line splits into one empty part.
ParseCSVLine(rawLine, delimiter) ==
    PartsItems(TrimEach(Split(Trim(rawLine), delimiter)))

RECURSIVE ParseCSVFrom(_, _, _)
ParseCSVFrom(lines, i, delimiter) ==
    IF i > Len(lines) THEN <<>>
    ELSE ParseCSVLine(lines[i], delimiter) \o ParseCSVFrom(lines, i + 1, delimiter)

ParseCSVLines(lines, delimiter) ==
    ParseCSVFrom(lines, IF IsHeader(lines[1]) THEN 2 ELSE 1, delimiter)

parseCSV(content, delimiter) == ParseCSVLines(Split(Trim(content), "\n"), delimiter)

\* The characters "." of a regular expression does not match.
LineTerminators == {"\n", "\r"}

\* The separators of /^(.+?)[\s]*[:NDASH-][\s]*(.+)$/
Separators == {":", "NDASH", "-"}

\* The first position after p that is not blank, 0 if there is none.
NextInk(t, p) ==
    IF \A k \in (p + 1)..Len(t) : t[k] \in WhiteSpace THEN 0
    ELSE CHOOSE k \in (p + 1)..Len(t) :
            t[k] \notin WhiteSpace /\ \A q \in (p + 1)..(k - 1) : t[q] \in WhiteSpace

\* The expression matches with group 1 = the first j characters of t and
\* the separator at k, the first non-blank position after j, if something
\* that is not a line end follows the separator.
MatchesAt(t, j, k) ==
    /\ k > 0
    /\ t[k] \in Separators
    /\ \A q \in 1..j : t[q] \notin LineTerminators
    /\ NextInk(t, k) > 0
    /\ \A q \in NextInk(t, k)..Len(t) : t[q] \notin LineTerminators

Matches(t, j) == MatchesAt(t, j, NextInk(t, j))

NameAndPrice(name, price) ==
    IF price = NoPrice THEN <<>> ELSE <<Item(<<>>, name, price)>>

\* The lazy group 1 takes the least j that lets the rest match.
MatchedLine(t, j) ==
    NameAndPrice(Trim(SubSeq(t, 1, j)),
                 parsePrice(SubSeq(t, NextInk(t, NextInk(t, j)), Len(t))))

TextLine(t) ==
    IF \A j \in 1..Len(t) : ~Matches(t, j) THEN <<>>
    ELSE MatchedLine(t, CHOOSE j \in 1..Len(t) :
                           Matches(t, j) /\ \A k \in 1..(j - 1) : ~Matches(t, k))

\* The body of parseTextFormat's loop for one line.
ParseTextLine(rawLine) == TextLine(Trim(rawLine))

RECURSIVE ParseTextFrom(_, _)
ParseTextFrom(lines, i) ==
    IF i > Len(lines) THEN <<>>
    ELSE ParseTextLine(lines[i]) \o ParseTextFrom(lines, i + 1)

parseTextFormat(content) == ParseTextFrom(Split(Trim(content), "\n"), 1)

\* Delimiter with every test made on the first line alone.
DelimiterOfFirstLine(trimmed) ==
    LET first == Split(trimmed, "\n")[1]
    IN  IF \E i \in DOMAIN first : first[i] = ";" THEN ";"
        ELSE IF \E i \in DOMAIN first : first[i] = "\t" THEN "\t"
        ELSE IF Len(Split(first, ",")) >= 2 THEN ","
        ELSE ""

\* The delimiter parsePriceData settles on, "" for the text format.
Delimiter(trimmed) ==
    IF \E i \in DOMAIN trimmed : trimmed[i] = ";" THEN ";"
    ELSE IF \E i \in DOMAIN trimmed : trimmed[i] = "\t" THEN "\t"
    ELSE IF /\ \E i \in DOMAIN trimmed : trimmed[i] = ","
            /\ Len(Split(Split(trimmed, "\n")[1], ",")) >= 2
         THEN ","
    ELSE ""

ParseTrimmed(trimmed, delimiter) ==
    IF delimiter = "" THEN parseTextFormat(trimmed)
    ELSE parseCSV(trimmed, delimiter)

parsePriceData(content) == ParseTrimmed(Trim(content), Delimiter(Trim(content)))

\* ------------------------------------------------------------------------
\* priceParser.ts: validatePriceData
\* ------------------------------------------------------------------------

\* The messages of validatePriceData, as records: kind is "unrecognized"
\* (the top-level message of an empty list, line 0), "missing", "price" or
\* "duplicate" (with the key).
Message(kind, line, key) == [kind |-> kind, line |-> line, key |-> key]

\* ItemKey with the name taken before the article.
ItemKeyNameFirst(item) == IF item.name # <<>> THEN item.name ELSE item.article

\* const key = item.article || item.name || ''
ItemKey(item) == IF item.article # <<>> THEN item.article ELSE item.name

\* The messages the loop body pushes for entry i: seen holds the keys of
\* the entries before it.
ValidateEntry(items, i) ==
    LET item == items[i]
        seen == {ItemKey(items[j]) : j \in 1..(i - 1)}
    IN  (IF item.article = <<>> /\ item.name = <<>>
         THEN <<Message("missing", i, <<>>)>> ELSE <<>>)
        \o (IF item.price <= 0
            THEN <<Message("price", i, <<>>)>> ELSE <<>>)
        \o (IF ItemKey(item) \in seen
            THEN <<Message("duplicate", i, ItemKey(item))>> ELSE <<>>)

RECURSIVE ValidateFrom(_, _)
ValidateFrom(items, i) ==
    IF i > Len(items) THEN <<>>
    ELSE ValidateEntry(items, i) \o ValidateFrom(items, i + 1)

validatePriceData(items) ==
    IF Len(items) = 0 THEN <<Message("unrecognized", 0, <<>>)>>
    ELSE ValidateFrom(items, 1)

\* ------------------------------------------------------------------------
\* The admin panel's own parser: uploadApi.parsePrices
\* ------------------------------------------------------------------------

\* The delimiter the admin panel settles on, from the first line alone.
ClientDelimiter(firstLine) ==
    IF \E i \in DOMAIN firstLine : firstLine[i] = "\t" THEN "\t"
    ELSE IF \E i \in DOMAIN firstLine : firstLine[i] = ";" THEN ";"
    ELSE ","

\* The header keywords of the admin panel: "nazvanie" and "tsena" in
\* Cyrillic, "name", "price".
ClientHeaderWords ==
    { <<"cyr_n","cyr_a","cyr_z","cyr_v","cyr_a","cyr_n","cyr_i","cyr_e">>,
      <<"cyr_c","cyr_e","cyr_n","cyr_a">>,
      <<"n","a","m","e">>,
      <<"p","r","i","c","e">> }

ClientHasHeader(firstLine) ==
    \E w \in ClientHeaderWords : Includes(ToLowerCase(firstLine), w)

\* .replace(/\s+/g, '-'): every run of blanks becomes one hyphen.
RECURSIVE BlanksToHyphen(_)
BlanksToHyphen(s) ==
    IF s = <<>> THEN <<>>
    ELSE IF Head(s) \in WhiteSpace
    THEN <<"-">> \o BlanksToHyphen(TrimStart(s))
    ELSE <<Head(s)>> \o BlanksToHyphen(Tail(s))

\* The characters .replace(/[^A-ZCYR_A-CYR_YA0-9\s]/g, '') keeps.
ClientArticleChars ==
    Range(UpperCase) \cup Range(Digits) \cup WhiteSpace

\* String.prototype.substring(0, n).
Substring(s, n) == SubSeq(s, 1, IF Len(s) < n THEN Len(s) ELSE n)

\* The article generated from a name.
ClientArticle(name) ==
    Substring(BlanksToHyphen(Without(ToUpperCase(name),
                                     Range(ToUpperCase(name))
                                        \ ClientArticleChars)),
              50)

\* parseInt(parts[1].replace(/[^\d]/g, ''), 10): <<>> is NaN.
ClientPrice(digits) ==
    IF digits = <<>> THEN <<>> ELSE <<DigitsValue(digits) * PriceScale>>

\* parts[k] || fallback
PartOr(parts, k, fallback) ==
    IF k <= Len(parts) /\ parts[k] # <<>> THEN parts[k] ELSE fallback

ClientProduct(parts, price) ==
    IF parts[1] # <<>> /\ price # <<>> /\ price[1] > 0
    THEN <<[article |-> ClientArticle(parts[1]), name |-> parts[1],
            price |-> price[1], category |-> PartOr(parts, 3, <<>>),
            brand |-> PartOr(parts, 4, <<"A","p","p","l","e">>),
            description |-> PartOr(parts, 5, <<>>)]>>
    ELSE <<>>

ClientParts(parts) ==
    IF Len(parts) >= 2
    THEN ClientProduct(parts, ClientPrice(Without(parts[2],
                                                  Range(parts[2]) \ Range(Digits))))
    ELSE <<>>

ClientParseLine(rawLine, delimiter) ==
    ClientParts(TrimEach(Split(Trim(rawLine), delimiter)))

RECURSIVE ClientParseFrom(_, _, _)
ClientParseFrom(lines, i, delimiter) ==
    IF i > Len(lines) THEN <<>>
    ELSE ClientParseLine(lines[i], delimiter)
         \o ClientParseFrom(lines, i + 1, delimiter)

ClientParseLines(lines, delimiter) ==
    ClientParseFrom(lines, IF ClientHasHeader(lines[1]) THEN 2 ELSE 1, delimiter)

ClientParseWith(lines) == ClientParseLines(lines, ClientDelimiter(lines[1]))

\* uploadApi.parsePrices(csvContent)
parsePrices(csvContent) == ClientParseWith(Split(Trim(csvContent), "\n"))

\* ------------------------------------------------------------------------
\* The store: products and price_history (storage_setup.sql), and the two
\* lookups both the committer and the preview handler issue
\* ------------------------------------------------------------------------

\* The products rows the model starts with: id -> article, name, price.
\* Article is UNIQUE.  p1's name is a substring of p2's up to letter case,
\* so a name can match one product or both.
InitialProducts ==
    [p1 |-> [article |-> <<"A","1">>, name |-> <<"A","b">>,
             price |-> 10 * PriceScale],
     p2 |-> [article |-> <<"B","2">>, name |-> <<"a","b"," ","c">>,
             price |-> 20 * PriceScale]]

ProductIds == DOMAIN InitialProducts

\* No product: the data: null of a select that returned no single row.
NoProduct == "none"

\* text ILIKE pattern: % (and PostgREST's alias *) matches any run of
\* characters, _ any one character, letters match in either case.
RECURSIVE Like(_, _)
Like(text, pattern) ==
    IF pattern = <<>> THEN text = <<>>
    ELSE IF Head(pattern) \in {"%", "*"}
         THEN \/ Like(text, Tail(pattern))
              \/ text # <<>> /\ Like(Tail(text), pattern)
    ELSE /\ text # <<>>
         /\ \/ Head(pattern) = "_"
            \/ ToLowerChar(Head(pattern)) = ToLowerChar(Head(text))
         /\ Like(Tail(text), Tail(pattern))

\* RowsByArticle with the letters compared in either case.
RowsByArticleAnyCase(rows, article) ==
    {p \in DOMAIN rows : ToLowerCase(rows[p].article) = ToLowerCase(article)}

\* The rows of .from('products').eq('article', article)
RowsByArticle(rows, article) ==
    {p \in DOMAIN rows : rows[p].article = article}

\* The rows of .from('products').ilike('name', `%${name}%`)
RowsByName(rows, name) ==
    {p \in DOMAIN rows : Like(rows[p].name, <<"%">> \o name \o <<"%">>)}

\* Resolutions with the two lookups in the other order: the name first.
ResolutionsNameFirst(rows, item) ==
    LET byArticle == IF item.article # <<>>
                     THEN RowsByArticle(rows, item.article) ELSE {}
        byName    == IF item.name # <<>>
                     THEN RowsByName(rows, item.name) ELSE {}
    IN  IF byName # {} THEN byName
        ELSE IF Cardinality(byArticle) = 1 THEN byArticle
        ELSE {NoProduct}

\* What the two selects of one entry can resolve to, as a set of product
\* ids or NoProduct.  .single() gives data only for exactly one row;
\* .limit(1) without an ORDER BY keeps whichever matching row the database
\* returns first.
Resolutions(rows, item) ==
    LET byArticle == IF item.article # <<>>
                     THEN RowsByArticle(rows, item.article) ELSE {}
        byName    == IF item.name # <<>>
                     THEN RowsByName(rows, item.name) ELSE {}
    IN  IF Cardinality(byArticle) = 1 THEN byArticle
        ELSE IF byName # {} THEN byName
        ELSE {NoProduct}

\* The value a DECIMAL(12, 2) column keeps of a price (half away from zero).
\* Every finite price of the model is below the column's 10^10.
RoundDecimal(price) == ((price + 5) \div 10) * 10

\* Whether the store can keep the price at all: JSON.stringify turns
\* Infinity into null, which the NOT NULL column rejects.
Storable(price) == price < Infinity

\* ------------------------------------------------------------------------
\* State
\* ------------------------------------------------------------------------

VARIABLES
    products,       \* the products table: id -> [article, name, price]
    price_history,  \* the price_history table, in insertion order
    reqs,           \* the HTTP requests: slot -> handler state and response
    upload,         \* the price list the admin panel holds and posts
    failures,       \* the store errors and exceptions so far
    orders          \* the orders table: id -> [assigned_manager_id]

vars == <<products, price_history, reqs, upload, failures, orders>>

\* assigned_manager_id IS NULL
NoManager == "null"

\* The orders rows the price routes never touch: one order, unassigned.
InitialOrders == [o1 |-> [assigned_manager_id |-> NoManager]]

\* The most lines of an uploaded price list.
MaxLines == 2

\* The most writes the store fails in one behaviour.
MaxFailures == 1

\* The request slots: two requests, which may overlap (the handlers are
\* async and give way at every await).
Reqs == {1, 2}

\* The lines price lists are made of: an article match (p1), an unmatched
\* article with a name that matches p1 and p2, an entry with no match, and
\* a line with no price.
SampleLines ==
    << <<"A","1",";","5">>,
       <<"Z",";","a","b",";","9">>,
       <<"Z","9",";","5">>,
       <<"x">> >>

RECURSIVE JoinLines(_)
JoinLines(lines) ==
    IF lines = <<>> THEN <<>>
    ELSE IF Len(lines) = 1 THEN lines[1]
    ELSE lines[1] \o <<"\n">> \o JoinLines(Tail(lines))

\* The price lists a request can carry: up to MaxLines sample lines.
Contents ==
    UNION {{JoinLines([k \in 1..n |-> SampleLines[f[k]]]) :
               f \in [1..n -> DOMAIN SampleLines]} : n \in 0..MaxLines}

\* What the database client's promise settles to for a write: the write is
\* applied ("ok"), the result carries an error ("error"), or the await
\* throws ("throw").  The write takes no effect unless "ok".
StoreOutcomes == {"ok", "error", "throw"}

\* The message of a store error or exception.
StoreMessage == "store error"

\* The reason of the committer's not-found error (a Russian sentence in the
\* source: "product not found").
NotFoundReason == "product not found"

IdleReq ==
    [pc       |-> "idle",    \* idle, lookup, insert, update, enrich, done;
                             \* PUT /:id: current, record, put
     endpoint |-> "none",    \* "prices", "preview" or "products"
     preview  |-> FALSE,     \* req.query.preview === 'true'
     items    |-> <<>>,      \* parsePriceData(content)
     i        |-> 0,         \* updatePrices: lineNumber of the entry at hand
     product  |-> <<>>,      \* updatePrices: product, <<>> for null
     insertError |-> FALSE,  \* updatePrices: whether the insert's result,
                             \* which the code drops, carried an error
     success  |-> 0,         \* result.success
     failed   |-> 0,         \* result.failed
     errors   |-> <<>>,      \* result.errors
     pending  |-> {},        \* preview: entries whose lookups are in flight
     enriched |-> <<>>,      \* preview: itemsWithCurrentPrices
     validationErrors |-> <<>>,  \* preview: validatePriceData(items)
     id       |-> "none",    \* product and order routes: req.params.id
     user     |-> "none",    \* order routes: req.user.userId
     data     |-> <<>>,      \* PUT: validatedData, <<>> before it is parsed
     status   |-> 0,         \* the response's status, 0 before it is sent
     body     |-> [none |-> TRUE]]

\* An upload is a text field (req.body.content), which is falsy when
\* empty, or a file (req.file); the handlers treat a file and a text field
\* of the same non-empty content alike.
Uploads ==
    {[file |-> FALSE, content |-> c] : c \in Contents}
    \cup {[file |-> TRUE, content |-> <<>>]}

Init ==
    /\ products = InitialProducts
    /\ price_history = <<>>
    /\ reqs = [r \in Reqs |-> IdleReq]
    /\ upload \in Uploads
    /\ failures = 0
    /\ orders = InitialOrders

\* ------------------------------------------------------------------------
\* upload.ts: POST /api/upload/prices
\* ------------------------------------------------------------------------

Respond(rq, status, body) ==
    [rq EXCEPT !.pc = "done", !.status = status, !.body = body]

\* updatePrices' result object.
Result(rq) == [success |-> rq.success, failed |-> rq.failed, errors |-> rq.errors]

\* The request as the handler finds it.
Received(rq, endpoint, preview) ==
    [rq EXCEPT !.endpoint = endpoint, !.preview = preview]

\* PricesValidated without the preview branch: a flagged request goes on
\* to updatePrices.
PricesValidatedNoPreview(rq, validationErrors) ==
    IF Len(validationErrors) > 0
    THEN Respond(rq, 400, [error |-> "Validation failed",
                           details |-> validationErrors])
    ELSE [rq EXCEPT !.pc = "lookup", !.i = 1]

\* After validation: a 400 for any message, the preview branch, and
\* otherwise updatePrices starts on entry 1.
PricesValidated(rq, validationErrors) ==
    IF Len(validationErrors) > 0
    THEN Respond(rq, 400, [error |-> "Validation failed",
                           details |-> validationErrors])
    ELSE IF rq.preview
    THEN Respond(rq, 200, [items |-> rq.items, count |-> Len(rq.items)])
    ELSE [rq EXCEPT !.pc = "lookup", !.i = 1]

\* PricesParsed with the validator's messages dropped.
PricesParsedUnvalidated(rq, items) ==
    PricesValidated([rq EXCEPT !.items = items], <<>>)

PricesParsed(rq, items) ==
    PricesValidated([rq EXCEPT !.items = items], validatePriceData(items))

\* The handler up to its first await.
PricesHandler(rq, file, content, preview) ==
    IF ~file /\ content = <<>>
    THEN Respond(Received(rq, "prices", preview),
                 400, [error |-> "No file or content provided"])
    ELSE PricesParsed(Received(rq, "prices", preview), parsePriceData(content))

\* A slot is taken once, slots in order.
CanStart(r) ==
    /\ reqs[r].pc = "idle"
    /\ \A q \in Reqs : q < r => reqs[q].pc # "idle"

PostPrices(r, preview) ==
    /\ CanStart(r)
    /\ reqs' = [reqs EXCEPT ![r] = PricesHandler(reqs[r], upload.file,
                                                 upload.content, preview)]
    /\ UNCHANGED <<products, price_history, upload, failures, orders>>

\* ------------------------------------------------------------------------
\* priceParser.ts: updatePrices, one action per await
\* ------------------------------------------------------------------------

\* ErrorRecord with the loop index i for the line, not lineNumber = i + 1.
ErrorRecordZeroBased(rq, reason) ==
    [line |-> rq.i - 1, article |-> rq.items[rq.i].article,
     name |-> rq.items[rq.i].name, reason |-> reason]

ErrorRecord(rq, reason) ==
    [line |-> rq.i, article |-> rq.items[rq.i].article,
     name |-> rq.items[rq.i].name, reason |-> reason]

\* The end of the loop body: the next entry, or return result and
\* res.json(result).
NextEntry(rq) ==
    IF rq.i < Len(rq.items)
    THEN [rq EXCEPT !.i = rq.i + 1, !.pc = "lookup", !.product = <<>>,
                    !.insertError = FALSE]
    ELSE Respond([rq EXCEPT !.product = <<>>, !.insertError = FALSE],
                 200, Result(rq))

\* result.failed++; result.errors.push(...); on to the next entry.
CountFailed(rq, reason) ==
    NextEntry([rq EXCEPT !.failed = rq.failed + 1,
                         !.errors = Append(rq.errors, ErrorRecord(rq, reason))])

\* result.success++; on to the next entry.
CountSuccess(rq) == NextEntry([rq EXCEPT !.success = rq.success + 1])

\* AfterLookup with an unmatched entry skipped: no count, no error record.
AfterLookupSkips(rq, rows, p) ==
    IF p = NoProduct
    THEN NextEntry(rq)
    ELSE [rq EXCEPT !.pc = "insert",
                    !.product = <<[id |-> p, price |-> rows[p].price]>>]

\* The two selects settled: p is the product they resolved to.
AfterLookup(rq, rows, p) ==
    IF p = NoProduct
    THEN CountFailed(rq, NotFoundReason)
    ELSE [rq EXCEPT !.pc = "insert",
                    !.product = <<[id |-> p, price |-> rows[p].price]>>]

Lookup(r, p) ==
    /\ reqs[r].pc = "lookup"
    /\ p \in Resolutions(products, reqs[r].items[reqs[r].i])
    /\ reqs' = [reqs EXCEPT ![r] = AfterLookup(reqs[r], products, p)]
    /\ UNCHANGED <<products, price_history, upload, failures, orders>>

\* HistoryRow with the price taken from the product's row as it is when
\* the record is inserted, not from the run's earlier read.
HistoryRowOfCurrentPrice(r, rq) ==
    [product_id |-> rq.product[1].id,
     price |-> products[rq.product[1].id].price,
     by |-> <<r, rq.i>>]

\* HistoryRow with the entry's new price in place of the price read.
HistoryRowOfNewPrice(r, rq) ==
    [product_id |-> rq.product[1].id, price |-> rq.items[rq.i].price,
     by |-> <<r, rq.i>>]

\* The row the committer inserts: the product and the price it read.  by
\* stands for the row's id: the request and entry that wrote it.
HistoryRow(r, rq) ==
    [product_id |-> rq.product[1].id, price |-> rq.product[1].price,
     by |-> <<r, rq.i>>]

\* AfterInsert with a failed insert counted and recorded, and the update
\* made all the same.
AfterInsertCountsAndGoesOn(rq, outcome) ==
    IF outcome = "ok" THEN [rq EXCEPT !.pc = "update"]
    ELSE [rq EXCEPT !.pc = "update",
                    !.failed = rq.failed + 1,
                    !.errors = Append(rq.errors, ErrorRecord(rq, StoreMessage))]

\* await ...from('price_history').insert(...): the result is not looked at,
\* only an exception reaches the catch block.
AfterInsert(rq, outcome) ==
    IF outcome = "throw" THEN CountFailed(rq, StoreMessage)
    ELSE [rq EXCEPT !.pc = "update", !.insertError = (outcome = "error")]

\* A write settles; the store fails at most MaxFailures writes it could
\* have applied.
Settles(outcome) ==
    /\ outcome # "ok" => failures < MaxFailures
    /\ failures' = IF outcome = "ok" THEN failures ELSE failures + 1

\* price_history.product_id REFERENCES products(id): a record of a product
\* that is no longer there is rejected with a returned error.
InsertSettles(rows, id, outcome) ==
    IF id \in DOMAIN rows THEN Settles(outcome)
    ELSE outcome = "error" /\ failures' = failures

InsertHistory(r, outcome) ==
    /\ reqs[r].pc = "insert"
    /\ InsertSettles(products, reqs[r].product[1].id, outcome)
    /\ price_history' = IF outcome = "ok"
                        THEN Append(price_history, HistoryRow(r, reqs[r]))
                        ELSE price_history
    /\ reqs' = [reqs EXCEPT ![r] = AfterInsert(reqs[r], outcome)]
    /\ UNCHANGED <<products, upload, orders>>

\* AfterUpdate with the loop left at the first update error: the result
\* is returned with the entries after it unprocessed.
AfterUpdateStops(rq, outcome) ==
    IF outcome = "ok" THEN CountSuccess(rq)
    ELSE Respond([rq EXCEPT !.failed = rq.failed + 1,
                            !.errors = Append(rq.errors,
                                              ErrorRecord(rq, StoreMessage))],
                 200,
                 [success |-> rq.success, failed |-> rq.failed + 1,
                  errors |-> Append(rq.errors, ErrorRecord(rq, StoreMessage))])

\* const { error: updateError } = await ...update({ price: item.price })
AfterUpdate(rq, outcome) ==
    IF outcome = "ok" THEN CountSuccess(rq) ELSE CountFailed(rq, StoreMessage)

\* UPDATE products SET price = ... WHERE id = ...
UpdateRow(rows, id, price) ==
    [p \in DOMAIN rows |->
        IF p = id THEN [rows[p] EXCEPT !.price = RoundDecimal(price)]
        ELSE rows[p]]

\* A price the column cannot keep is a returned error, whatever the store
\* does otherwise.
UpdatePrice(r, outcome) ==
    /\ reqs[r].pc = "update"
    /\ IF Storable(reqs[r].items[reqs[r].i].price)
       THEN Settles(outcome)
       ELSE outcome = "error" /\ failures' = failures + 1
    /\ products' = IF outcome = "ok"
                   THEN UpdateRow(products, reqs[r].product[1].id,
                                  reqs[r].items[reqs[r].i].price)
                   ELSE products
    /\ reqs' = [reqs EXCEPT ![r] = AfterUpdate(reqs[r], outcome)]
    /\ UNCHANGED <<price_history, upload, orders>>

\* A run is between two awaits.
InRun(rq) == rq.pc \in {"lookup", "insert", "update"}

\* ------------------------------------------------------------------------
\* upload.ts: POST /api/upload/prices/preview
\* ------------------------------------------------------------------------

\* One element of itemsWithCurrentPrices: the entry and what its lookups
\* found.  null is <<>>, a number n is <<n>>.
PreviewItem(item, rows, p) ==
    [article       |-> item.article,
     name          |-> item.name,
     price         |-> item.price,
     product_id    |-> p,
     product_name  |-> IF p = NoProduct THEN <<>> ELSE rows[p].name,
     current_price |-> IF p = NoProduct THEN <<>> ELSE <<rows[p].price>>,
     price_change  |-> IF p = NoProduct THEN <<>>
                       ELSE <<item.price - rows[p].price>>,
     found         |-> p # NoProduct]

\* itemsWithCurrentPrices.filter(Test).length over a price_change.
Increased(e) == e.price_change # <<>> /\ e.price_change[1] > 0

Decreased(e) == e.price_change # <<>> /\ e.price_change[1] < 0

Summary(items, enriched) ==
    LET at == DOMAIN enriched
    IN  [total           |-> Len(items),
         found           |-> Cardinality({k \in at : enriched[k].found}),
         not_found       |-> Cardinality({k \in at : ~enriched[k].found}),
         price_increased |-> Cardinality({k \in at : Increased(enriched[k])}),
         price_decreased |-> Cardinality({k \in at : Decreased(enriched[k])}),
         price_unchanged |-> Cardinality({k \in at :
                                            enriched[k].price_change = <<0>>})]

\* res.json({ items: itemsWithCurrentPrices, summary, validationErrors })
PreviewResponse(rq) ==
    Respond(rq, 200, [items |-> rq.enriched,
                      summary |-> Summary(rq.items, rq.enriched),
                      validationErrors |-> rq.validationErrors])

\* Every entry's lookups are started (Promise.all over items.map); with
\* no entry the response is sent at once.
PreviewValidated(rq, validationErrors) ==
    IF rq.items = <<>>
    THEN PreviewResponse([rq EXCEPT !.validationErrors = validationErrors])
    ELSE [rq EXCEPT !.validationErrors = validationErrors,
                    !.pc = "enrich", !.pending = DOMAIN rq.items]

PreviewParsed(rq, items) ==
    PreviewValidated([rq EXCEPT !.items = items], validatePriceData(items))

\* The handler up to its first await.
PreviewHandler(rq, file, content) ==
    IF ~file /\ content = <<>>
    THEN Respond(Received(rq, "preview", FALSE),
                 400, [error |-> "No file or content provided"])
    ELSE PreviewParsed(Received(rq, "preview", FALSE), parsePriceData(content))

PostPricesPreview(r) ==
    /\ CanStart(r)
    /\ reqs' = [reqs EXCEPT ![r] = PreviewHandler(reqs[r], upload.file,
                                                  upload.content)]
    /\ UNCHANGED <<products, price_history, upload, failures, orders>>

\* The lookups of entry k settled, resolving to p; the response is sent
\* when the last entry's have.
AfterPreviewLookup(rq, rows, k, p) ==
    LET done == [rq EXCEPT
                   !.pending = rq.pending \ {k},
                   !.enriched = [j \in (DOMAIN rq.enriched) \cup {k} |->
                                   IF j = k
                                   THEN PreviewItem(rq.items[k], rows, p)
                                   ELSE rq.enriched[j]]]
    IN  IF done.pending = {} THEN PreviewResponse(done) ELSE done

PreviewLookup(r, k, p) ==
    /\ reqs[r].pc = "enrich"
    /\ k \in reqs[r].pending
    /\ p \in Resolutions(products, reqs[r].items[k])
    /\ reqs' = [reqs EXCEPT ![r] = AfterPreviewLookup(reqs[r], products, k, p)]
    /\ UNCHANGED <<products, price_history, upload, failures, orders>>

\* ------------------------------------------------------------------------
\* Specification
\* ------------------------------------------------------------------------

Next ==
    \/ \E r \in Reqs, preview \in BOOLEAN : PostPrices(r, preview)
    \/ \E r \in Reqs : PostPricesPreview(r)
    \/ \E r \in Reqs, p \in ProductIds \cup {NoProduct} : Lookup(r, p)
    \/ \E r \in Reqs, outcome \in StoreOutcomes : InsertHistory(r, outcome)
    \/ \E r \in Reqs, outcome \in StoreOutcomes : UpdatePrice(r, outcome)
    \/ \E r \in Reqs, k \in 1..MaxLines, p \in ProductIds \cup {NoProduct} :
          PreviewLookup(r, k, p)

Spec == Init /\ [][Next]_vars

\* ------------------------------------------------------------------------
\* The parsers on their own: price lists of every format
\* ------------------------------------------------------------------------

\* The lines the parsers are given: mixed delimiters, header lines, lines
\* without an identifier, and prices with currency marks, decimal commas
\* and points, signs, letters and Infinity.
ParserLines ==
    << <<"n",";","7",",","5">>,
       <<"n","\t","7",";","5">>,
       <<"n","\t","7",",","5">>,
       <<"n",",","5">>,
       <<"n",":"," ","5">>,
       <<"N","a","m","e",";","5">>,
       <<"N","A","M","E",",","5">>,
       <<"CYR_A","CYR_R","CYR_T","CYR_I","CYR_K","CYR_U","CYR_L","\t","5">>,
       <<"n","a","m","e",":"," ","5">>,
       <<";",";","5">>,
       <<";","5">>,
       <<"A","1",";","I","n","f","i","n","i","t","y">>,
       <<"A","1",";","1","2","5"," ","0","0","0"," ","cyr_r","cyr_u","cyr_b",".">>,
       <<"A","1",";","1","2",",","5","0","EURO">>,
       <<"A","1",";","-","5">>,
       <<"A","1",";","a","b","c">>,
       <<"A","1",";","1","2",".","5","0">>,
       <<"A","1",";","n"," ","m",";","5">>,
       <<"x">>,
       <<" ">> >>

ParserContents ==
    UNION {{JoinLines([k \in 1..n |-> ParserLines[f[k]]]) :
               f \in [1..n -> DOMAIN ParserLines]} : n \in 0..MaxLines}

ParserInit ==
    /\ products = InitialProducts
    /\ price_history = <<>>
    /\ reqs = [r \in Reqs |-> IdleReq]
    /\ upload \in {[file |-> TRUE, content |-> c] : c \in ParserContents}
    /\ failures = 0
    /\ orders = InitialOrders

\* The call returns the products it parsed.
ClientParsed(rq, parsed) ==
    [rq EXCEPT !.pc = "done", !.endpoint = "uploadApi.parsePrices",
               !.items = parsed, !.body = [products |-> parsed]]

\* The admin panel parses the price list it holds.
CallParsePrices(r) ==
    /\ CanStart(r)
    /\ reqs' = [reqs EXCEPT ![r] =
                   ClientParsed(reqs[r], parsePrices(upload.content))]
    /\ UNCHANGED <<products, price_history, upload, failures, orders>>

\* The backend parses the list for POST /api/upload/prices?preview=true.
ParserNext ==
    \/ \E r \in Reqs : PostPrices(r, TRUE)
    \/ \E r \in Reqs : CallParsePrices(r)

ParserSpec == ParserInit /\ [][ParserNext]_vars

\* ------------------------------------------------------------------------
\* The routes over price lists that exercise the two lookups
\* ------------------------------------------------------------------------

\* An article of p1 with a name only p2 has; an unknown article with a
\* name that holds a LIKE wildcard; a freeform line whose name only p2
\* has, in capitals; p1's article in lower case, which no lookup matches.
MatchLines ==
    << <<"A","1",";","c",";","9">>,
       <<"Z",";","a","_",";","9">>,
       <<"B"," ","C",":"," ","9","RUBLE">>,
       <<"a","1",";","5">> >>

MatchContents ==
    UNION {{JoinLines([k \in 1..n |-> MatchLines[f[k]]]) :
               f \in [1..n -> DOMAIN MatchLines]} : n \in 1..MaxLines}

MatchInit ==
    /\ products = InitialProducts
    /\ price_history = <<>>
    /\ reqs = [r \in Reqs |-> IdleReq]
    /\ upload \in {[file |-> FALSE, content |-> c] : c \in MatchContents}
    /\ failures = 0
    /\ orders = InitialOrders

MatchSpec == MatchInit /\ [][Next]_vars

\* ------------------------------------------------------------------------
\* Commit runs one after the other, over a store that does not fail
\* ------------------------------------------------------------------------

\* POST /prices while no run is under way.
PostPricesAlone(r) ==
    /\ \A q \in Reqs : ~InRun(reqs[q])
    /\ PostPrices(r, FALSE)

SequentialNext ==
    \/ \E r \in Reqs : PostPricesAlone(r)
    \/ \E r \in Reqs, p \in ProductIds \cup {NoProduct} : Lookup(r, p)
    \/ \E r \in Reqs : InsertHistory(r, "ok")
    \/ \E r \in Reqs : UpdatePrice(r, "ok")

SequentialSpec == Init /\ [][SequentialNext]_vars

\* ------------------------------------------------------------------------
\* products.ts: PUT and DELETE /api/products/:id
\* ------------------------------------------------------------------------

\* The prices of the PUT bodies: p1's own price and another.
PutPrices == {10 * PriceScale, 30 * PriceScale}

\* productSchema.partial().parse(req.body) of a body that holds a price;
\* with no article in it the duplicate check is skipped.
PutProduct(r, id, price) ==
    /\ CanStart(r)
    /\ reqs' = [reqs EXCEPT ![r] =
                  [Received(reqs[r], "products", FALSE) EXCEPT
                      !.pc = "current", !.id = id,
                      !.data = <<[price |-> price]>>]]
    /\ UNCHANGED <<products, price_history, upload, failures, orders>>

\* const { data: current } = await ...select('price').eq('id', id).single()
\* and the test current && current.price !== validatedData.price
AfterCurrent(rq, rows) ==
    IF rq.id \in DOMAIN rows /\ rows[rq.id].price # rq.data[1].price
    THEN [rq EXCEPT !.pc = "record",
                    !.product = <<[id |-> rq.id, price |-> rows[rq.id].price]>>]
    ELSE [rq EXCEPT !.pc = "put"]

ReadCurrent(r) ==
    /\ reqs[r].pc = "current"
    /\ reqs' = [reqs EXCEPT ![r] = AfterCurrent(reqs[r], products)]
    /\ UNCHANGED <<products, price_history, upload, failures, orders>>

\* res.status(500).json({ error: 'Failed to update product' })
PutFailed(rq) == Respond(rq, 500, [error |-> "Failed to update product"])

\* await ...from('price_history').insert({ product_id: id, price:
\* current.price }): the result is dropped, an exception reaches the catch.
RecordCurrent(r, outcome) ==
    /\ reqs[r].pc = "record"
    /\ InsertSettles(products, reqs[r].id, outcome)
    /\ price_history' = IF outcome = "ok"
                        THEN Append(price_history,
                                    [product_id |-> reqs[r].id,
                                     price |-> reqs[r].product[1].price,
                                     by |-> <<r, 0>>])
                        ELSE price_history
    /\ reqs' = [reqs EXCEPT ![r] =
                  IF outcome = "throw" THEN PutFailed(reqs[r])
                  ELSE [reqs[r] EXCEPT !.pc = "put",
                                       !.insertError = (outcome = "error")]]
    /\ UNCHANGED <<products, upload, orders>>

\* ...update({...validatedData}).eq('id', id).select().single(), then
\* if (error) throw error.  With no row of that id single() returns an
\* error, so the 404 below it is never sent.
PutUpdate(r, outcome) ==
    /\ reqs[r].pc = "put"
    /\ IF reqs[r].id \in DOMAIN products THEN Settles(outcome)
       ELSE outcome = "error" /\ failures' = failures
    /\ products' = IF outcome = "ok"
                   THEN UpdateRow(products, reqs[r].id, reqs[r].data[1].price)
                   ELSE products
    /\ reqs' = [reqs EXCEPT ![r] =
                  IF outcome = "ok"
                  THEN Respond(reqs[r], 200, products'[reqs[r].id])
                  ELSE PutFailed(reqs[r])]
    /\ UNCHANGED <<price_history, upload, orders>>

\* DELETE FROM products WHERE id = ...: the row goes.
DeleteRow(rows, id) == [p \in (DOMAIN rows) \ {id} |-> rows[p]]

\* price_history.product_id ... ON DELETE CASCADE: the history records of
\* the product go with it.
Cascade(history, id) == SelectSeq(history, LAMBDA h : h.product_id # id)

\* DELETE /api/products/:id: one await; an error (the store's, or the
\* RESTRICT of an order item on the product) is thrown to the catch.
DeleteProduct(r, id, outcome) ==
    /\ CanStart(r)
    /\ Settles(outcome)
    /\ products' = IF outcome = "ok" THEN DeleteRow(products, id) ELSE products
    /\ price_history' = IF outcome = "ok" THEN Cascade(price_history, id)
                        ELSE price_history
    /\ reqs' = [reqs EXCEPT ![r] =
                  Respond([Received(reqs[r], "products", FALSE) EXCEPT !.id = id],
                          IF outcome = "ok" THEN 200 ELSE 500,
                          IF outcome = "ok" THEN [success |-> TRUE]
                          ELSE [error |-> "Failed to delete product"])]
    /\ UNCHANGED <<upload, orders>>

\* ------------------------------------------------------------------------
\* The admin panel writing to the store itself: uploadApi.previewPrices and
\* uploadApi.uploadPrices
\* ------------------------------------------------------------------------

\* .toLowerCase().replace(/\s+/g, ' ')
RECURSIVE SquashBlanks(_)
SquashBlanks(s) ==
    IF s = <<>> THEN <<>>
    ELSE IF Head(s) \in WhiteSpace
    THEN <<" ">> \o SquashBlanks(TrimStart(s))
    ELSE <<ToLowerChar(Head(s))>> \o SquashBlanks(Tail(s))

\* The products allProducts.find can return for a parsed product: one with
\* its article whatever the letter case, failing that one whose name
\* contains its name or is contained in it; the order of allProducts is the
\* store's.
ClientMatches(rows, p) ==
    LET byArticle == {q \in DOMAIN rows :
                        ToLowerCase(rows[q].article) = ToLowerCase(p.article)}
        byName == {q \in DOMAIN rows :
                     \/ Includes(SquashBlanks(rows[q].name), SquashBlanks(p.name))
                     \/ Includes(SquashBlanks(p.name), SquashBlanks(rows[q].name))}
    IN  IF byArticle # {} THEN byArticle
        ELSE IF byName # {} THEN byName
        ELSE {NoProduct}

\* preview.items.filter(i => i.found && i.product_id), as the product and
\* the price of each.
ToUpdate(parsed, found) ==
    LET hit == SelectSeq([k \in DOMAIN parsed |-> k],
                         LAMBDA k : found[k] # NoProduct)
    IN  [n \in DOMAIN hit |->
           [product_id |-> found[hit[n]], price |-> parsed[hit[n]].price,
            name |-> parsed[hit[n]].name]]

\* return { success, failed, errors }, the entries not found counted failed.
UploadResult(rq) ==
    Respond(rq, 200,
            [success |-> rq.success,
             failed |-> rq.failed + (Len(rq.items) - Len(rq.enriched)),
             errors |-> rq.errors])

\* The update loop goes on to the next product found, or returns.
NextToUpdate(rq) ==
    IF rq.i < Len(rq.enriched)
    THEN [rq EXCEPT !.i = rq.i + 1, !.pc = "overwrite"]
    ELSE UploadResult(rq)

\* uploadPrices up to its first update: previewPrices parses the list,
\* selects all the products and matches each parsed product.
CallUploadPrices(r, found) ==
    /\ CanStart(r)
    /\ LET parsed == parsePrices(upload.content)
       IN  /\ \A k \in DOMAIN found :
                 IF k \in DOMAIN parsed
                 THEN found[k] \in ClientMatches(products, parsed[k])
                 ELSE found[k] = NoProduct
           /\ reqs' = [reqs EXCEPT ![r] =
                         NextToUpdate(
                            [Received(reqs[r], "uploadApi.uploadPrices", FALSE)
                               EXCEPT !.items = parsed,
                                      !.enriched = ToUpdate(parsed, found)])]
    /\ UNCHANGED <<products, price_history, upload, failures, orders>>

\* await supabase.from('products').update({ price }).eq('id', product_id):
\* no price_history insert goes with it.  A rejected promise rejects the
\* call.
UploadPricesUpdate(r, outcome) ==
    /\ reqs[r].pc = "overwrite"
    /\ Settles(outcome)
    /\ products' = IF outcome = "ok"
                   THEN UpdateRow(products, reqs[r].enriched[reqs[r].i].product_id,
                                  reqs[r].enriched[reqs[r].i].price)
                   ELSE products
    /\ reqs' = [reqs EXCEPT ![r] =
                  IF outcome = "ok"
                  THEN NextToUpdate([reqs[r] EXCEPT !.success = reqs[r].success + 1])
                  ELSE IF outcome = "error"
                  THEN NextToUpdate(
                          [reqs[r] EXCEPT
                              !.failed = reqs[r].failed + 1,
                              !.errors = Append(reqs[r].errors,
                                 [line |-> 0, reason |-> StoreMessage,
                                  name |-> reqs[r].enriched[reqs[r].i].name])])
                  ELSE Respond(reqs[r], 500, [error |-> StoreMessage])]
    /\ UNCHANGED <<price_history, upload, orders>>

\* The price lists of the catalog's runs: lines that name p1.
CatalogLines == << <<"A","1",";","5">> >>

CatalogContents ==
    UNION {{JoinLines([k \in 1..n |-> CatalogLines[f[k]]]) :
               f \in [1..n -> DOMAIN CatalogLines]} : n \in 1..MaxLines}

CatalogInit ==
    /\ products = InitialProducts
    /\ price_history = <<>>
    /\ reqs = [r \in Reqs |-> IdleReq]
    /\ upload \in {[file |-> FALSE, content |-> c] : c \in CatalogContents}
    /\ failures = 0
    /\ orders = InitialOrders

CatalogNext ==
    \/ Next
    \/ \E r \in Reqs, id \in ProductIds, price \in PutPrices :
          PutProduct(r, id, price)
    \/ \E r \in Reqs : ReadCurrent(r)
    \/ \E r \in Reqs, outcome \in StoreOutcomes : RecordCurrent(r, outcome)
    \/ \E r \in Reqs, outcome \in StoreOutcomes : PutUpdate(r, outcome)
    \/ \E r \in Reqs, id \in ProductIds, outcome \in StoreOutcomes :
          DeleteProduct(r, id, outcome)
    \/ \E r \in Reqs,
          found \in [1..MaxLines -> ProductIds \cup {NoProduct}] :
          CallUploadPrices(r, found)
    \/ \E r \in Reqs, outcome \in StoreOutcomes :
          UploadPricesUpdate(r, outcome)

CatalogSpec == CatalogInit /\ [][CatalogNext]_vars

\* ------------------------------------------------------------------------
\* The orders routes: POST /api/orders/:id/claim, /release, /assign
\* ------------------------------------------------------------------------

\* The rows of admin_users: two managers and an administrator.
Managers == {"m1", "m2"}

AdminUsers == Managers \cup {"adm"}

\* req.user.role
Role(u) == IF u \in Managers THEN "manager" ELSE "admin"

OrderIds == DOMAIN InitialOrders

\* UPDATE orders SET assigned_manager_id = ... WHERE id = ...
SetManager(rows, id, manager) ==
    [o \in DOMAIN rows |->
        IF o = id THEN [rows[o] EXCEPT !.assigned_manager_id = manager]
        ELSE rows[o]]

\* The request of user u on order id, as the handler finds it.
OrderRequest(rq, endpoint, id, u) ==
    [Received(rq, endpoint, FALSE) EXCEPT !.id = id, !.user = u]

\* POST /:id/claim up to its first await: update ... .eq('id', id)
\* .is('assigned_manager_id', null).select().single().  With no row to
\* update single() returns an error; an error leads to the second select,
\* an exception to the catch.
ClaimOrder(r, id, u, outcome) ==
    /\ CanStart(r)
    /\ IF orders[id].assigned_manager_id = NoManager THEN Settles(outcome)
       ELSE outcome = "error" /\ failures' = failures
    /\ orders' = IF outcome = "ok" THEN SetManager(orders, id, u) ELSE orders
    /\ reqs' = [reqs EXCEPT ![r] =
                  IF outcome = "ok"
                  THEN Respond(OrderRequest(reqs[r], "claim", id, u),
                               200, orders'[id])
                  ELSE IF outcome = "error"
                  THEN [OrderRequest(reqs[r], "claim", id, u) EXCEPT
                           !.pc = "existing"]
                  ELSE Respond(OrderRequest(reqs[r], "claim", id, u),
                               500, [error |-> "Failed to claim order"])]
    /\ UNCHANGED <<products, price_history, upload>>

\* if (existingOrder?.assigned_manager_id) return 409; throw error
ClaimExisting(r) ==
    /\ reqs[r].pc = "existing"
    /\ reqs' = [reqs EXCEPT ![r] =
                  IF orders[reqs[r].id].assigned_manager_id # NoManager
                  THEN Respond(reqs[r], 409, [error |-> "already claimed"])
                  ELSE Respond(reqs[r], 500,
                               [error |-> "Failed to claim order"])]
    /\ UNCHANGED <<products, price_history, upload, failures, orders>>

\* POST /:id/release up to its update: the order is read and the caller's
\* permission checked against what was read.
ReleaseOrder(r, id, u) ==
    /\ CanStart(r)
    /\ reqs' = [reqs EXCEPT ![r] =
                  IF id \notin DOMAIN orders
                  THEN Respond(OrderRequest(reqs[r], "release", id, u),
                               404, [error |-> "Order not found"])
                  ELSE IF Role(u) # "admin" /\ orders[id].assigned_manager_id # u
                  THEN Respond(OrderRequest(reqs[r], "release", id, u),
                               403, [error |-> "not your order"])
                  ELSE [OrderRequest(reqs[r], "release", id, u) EXCEPT
                           !.pc = "clear"]]
    /\ UNCHANGED <<products, price_history, upload, failures, orders>>

\* update({ assigned_manager_id: null, ... }).eq('id', id).select().single()
ReleaseUpdate(r, outcome) ==
    /\ reqs[r].pc = "clear"
    /\ Settles(outcome)
    /\ orders' = IF outcome = "ok"
                 THEN SetManager(orders, reqs[r].id, NoManager) ELSE orders
    /\ reqs' = [reqs EXCEPT ![r] =
                  IF outcome = "ok" THEN Respond(reqs[r], 200, orders'[reqs[r].id])
                  ELSE Respond(reqs[r], 500,
                               [error |-> "Failed to release order"])]
    /\ UNCHANGED <<products, price_history, upload>>

\* POST /:id/assign up to its update: administrators only, the manager
\* must be a row of admin_users.
AssignOrder(r, id, u, manager) ==
    /\ CanStart(r)
    /\ reqs' = [reqs EXCEPT ![r] =
                  IF Role(u) # "admin"
                  THEN Respond(OrderRequest(reqs[r], "assign", id, u),
                               403, [error |-> "administrators only"])
                  ELSE IF manager \notin AdminUsers
                  THEN Respond(OrderRequest(reqs[r], "assign", id, u),
                               400, [error |-> "manager not found"])
                  ELSE [OrderRequest(reqs[r], "assign", id, u) EXCEPT
                           !.pc = "assign",
                           !.data = <<[manager_id |-> manager]>>]]
    /\ UNCHANGED <<products, price_history, upload, failures, orders>>

\* update({ assigned_manager_id: manager_id, ... }).eq('id', id)
AssignUpdate(r, outcome) ==
    /\ reqs[r].pc = "assign"
    /\ Settles(outcome)
    /\ orders' = IF outcome = "ok"
                 THEN SetManager(orders, reqs[r].id, reqs[r].data[1].manager_id)
                 ELSE orders
    /\ reqs' = [reqs EXCEPT ![r] =
                  IF outcome = "ok" THEN Respond(reqs[r], 200, orders'[reqs[r].id])
                  ELSE Respond(reqs[r], 500,
                               [error |-> "Failed to assign order"])]
    /\ UNCHANGED <<products, price_history, upload>>

\* The order starts unassigned or with either manager.
OrdersInit ==
    /\ products = InitialProducts
    /\ price_history = <<>>
    /\ reqs = [r \in Reqs |-> IdleReq]
    /\ upload = [file |-> FALSE, content |-> <<>>]
    /\ failures = 0
    /\ orders \in {SetManager(InitialOrders, "o1", a) :
                     a \in Managers \cup {NoManager}}

OrdersNext ==
    \/ \E r \in Reqs, id \in OrderIds, u \in AdminUsers,
          outcome \in StoreOutcomes : ClaimOrder(r, id, u, outcome)
    \/ \E r \in Reqs : ClaimExisting(r)
    \/ \E r \in Reqs, id \in OrderIds, u \in AdminUsers : ReleaseOrder(r, id, u)
    \/ \E r \in Reqs, outcome \in StoreOutcomes : ReleaseUpdate(r, outcome)
    \/ \E r \in Reqs, id \in OrderIds, u \in AdminUsers,
          manager \in AdminUsers \cup {"nobody"} : AssignOrder(r, id, u, manager)
    \/ \E r \in Reqs, outcome \in StoreOutcomes : AssignUpdate(r, outcome)

OrdersSpec == OrdersInit /\ [][OrdersNext]_vars

\* ------------------------------------------------------------------------
\* Properties of the commit run
\* ------------------------------------------------------------------------

\* A request that commits: POST /api/upload/prices without preview=true.
Commit(rq) == rq.endpoint = "prices" /\ ~rq.preview

\* A request that previews, by either entry point.
Previewing(rq) ==
    rq.endpoint = "preview" \/ (rq.endpoint = "prices" /\ rq.preview)

\* The price_history rows entry k of request r wrote.
Rows(history, r, k) ==
    {j \in DOMAIN history : history[j].by = <<r, k>>}

\* C1: whenever the commit run counts an entry as a success, it has
\* inserted exactly one price_history row for it, holding the matched
\* product's id and the price read for the entry, and the product's price
\* is the entry's price.
C1_SuccessWroteHistoryAndPrice ==
    [][\A r \in Reqs :
         reqs'[r].success = reqs[r].success + 1 =>
            LET rq == reqs[r]
                written == Rows(price_history', r, rq.i)
            IN  /\ Cardinality(written) = 1
                /\ \A j \in written :
                      /\ price_history'[j].product_id = rq.product[1].id
                      /\ price_history'[j].price = rq.product[1].price
                /\ products'[rq.product[1].id].price = rq.items[rq.i].price
      ]_vars

\* C2: when the commit run is done with a matched entry for which the
\* history insert or the price update reported a failure (a returned error
\* or an exception), it counts the entry failed, appends one error record
\* with the entry's line, article, name and the failure's message, and
\* does not count it a success.
C2_ReportedFailureCountsFailed ==
    [][\A r \in Reqs :
         LET rq == reqs[r]
             reported == rq.insertError \/ failures' > failures
             finished == reqs'[r].pc = "done" \/ reqs'[r].i # rq.i
         IN  (rq.pc \in {"insert", "update"} /\ reqs'[r] # rq
              /\ reported /\ finished)
             => /\ reqs'[r].failed = rq.failed + 1
                /\ reqs'[r].success = rq.success
                /\ reqs'[r].errors =
                      Append(rq.errors,
                             [line |-> rq.i, article |-> rq.items[rq.i].article,
                              name |-> rq.items[rq.i].name,
                              reason |-> StoreMessage])
      ]_vars

\* C3: the commit run inserted as many price_history rows as the success
\* count it returns: one row for each success, none for a failed entry.
C3_HistoryRowsEqualSuccess ==
    \A r \in Reqs :
       (Commit(reqs[r]) /\ reqs[r].pc = "done" /\ reqs[r].status = 200)
       => /\ Cardinality({j \in DOMAIN price_history :
                             price_history[j].by[1] = r}) = reqs[r].success
          /\ \A e \in Range(reqs[r].errors) :
                Rows(price_history, r, e.line) = {}

\* C4: an entry that resolves to no product is counted failed with one
\* error record of reason "product not found", writes neither table, and
\* the run goes on to the next entry or, after the last, returns.
C4_NotFoundIsRecordedAndSkipped ==
    [][\A r \in Reqs :
         LET rq == reqs[r]
         IN  (rq.pc = "lookup" /\ reqs'[r] # rq
              /\ Resolutions(products, rq.items[rq.i]) = {NoProduct})
             => /\ reqs'[r].failed = rq.failed + 1
                /\ reqs'[r].success = rq.success
                /\ reqs'[r].errors =
                      Append(rq.errors,
                             [line |-> rq.i, article |-> rq.items[rq.i].article,
                              name |-> rq.items[rq.i].name,
                              reason |-> NotFoundReason])
                /\ products' = products
                /\ price_history' = price_history
                /\ IF rq.i < Len(rq.items)
                   THEN reqs'[r].pc = "lookup" /\ reqs'[r].i = rq.i + 1
                   ELSE reqs'[r].pc = "done" /\ reqs'[r].status = 200
      ]_vars

\* A run that recorded entry 1 as not found and went on to entry 2.
C4_Witness ==
    \E r \in Reqs :
       /\ Commit(reqs[r])
       /\ reqs[r].pc = "lookup" /\ reqs[r].i = 2
       /\ reqs[r].failed = 1
       /\ reqs[r].errors[1].reason = NotFoundReason

\* The steps of request r's commit run.
RunStep(r) ==
    \/ \E p \in ProductIds \cup {NoProduct} : Lookup(r, p)
    \/ \E outcome \in StoreOutcomes : InsertHistory(r, outcome)
    \/ \E outcome \in StoreOutcomes : UpdatePrice(r, outcome)

\* A run in flight can always take a step, and a run that returned has
\* counted every entry once.
RunEnds ==
    \A r \in Reqs :
       /\ InRun(reqs[r]) => ENABLED RunStep(r)
       /\ (Commit(reqs[r]) /\ reqs[r].pc = "done" /\ reqs[r].status = 200)
          => /\ reqs[r].i = Len(reqs[r].items)
             /\ reqs[r].success + reqs[r].failed = Len(reqs[r].items)
             /\ reqs[r].body = [success |-> reqs[r].success,
                                failed |-> reqs[r].failed,
                                errors |-> reqs[r].errors]

\* A failed entry leaves the tables and the successes counted so far as
\* they are and hands over to the next entry; no step goes back to an
\* earlier entry or removes a history row.
FailureIsIsolated ==
    \A r \in Reqs :
       LET rq == reqs[r]
       IN  /\ (InRun(rq) /\ reqs'[r].failed = rq.failed + 1)
              => /\ reqs'[r].success = rq.success
                 /\ products' = products
                 /\ price_history' = price_history
                 /\ IF rq.i < Len(rq.items)
                    THEN reqs'[r].pc = "lookup" /\ reqs'[r].i = rq.i + 1
                    ELSE reqs'[r].pc = "done" /\ reqs'[r].status = 200
           /\ reqs'[r].i >= rq.i
           /\ Len(price_history') >= Len(price_history)
           /\ SubSeq(price_history', 1, Len(price_history)) = price_history

\* C5: a failure on entry k neither stops the entries after k nor undoes
\* the writes of the entries before it, and the entry is not retried: the
\* run always reaches the end of the list and returns a result.
C5_FailureDoesNotStopTheRun == []RunEnds /\ [][FailureIsIsolated]_vars

\* A run that returned after entry 1 failed at its update and entry 2
\* succeeded.
C5_Witness ==
    \E r \in Reqs :
       /\ Commit(reqs[r])
       /\ reqs[r].pc = "done" /\ reqs[r].status = 200
       /\ reqs[r].failed = 1 /\ reqs[r].success = 1
       /\ reqs[r].errors[1].line = 1
       /\ reqs[r].errors[1].reason = StoreMessage

\* ------------------------------------------------------------------------
\* Properties of preview and validation
\* ------------------------------------------------------------------------

\* C6: no step of a preview request, by either entry point, changes the
\* products table or the price_history table, whatever the price list and
\* the state of the catalog.
C6_PreviewWritesNothing ==
    [][\A r \in Reqs :
         (reqs'[r] # reqs[r] /\ Previewing(reqs'[r]))
         => /\ products' = products
            /\ price_history' = price_history
      ]_vars

\* Both entry points answered a list with a matched entry, one over a
\* catalog an earlier commit changed.
C6_Witness ==
    \E r, q \in Reqs :
       /\ reqs[r].endpoint = "preview" /\ reqs[r].pc = "done"
       /\ reqs[r].status = 200
       /\ \E k \in DOMAIN reqs[r].enriched : reqs[r].enriched[k].found
       /\ Commit(reqs[q]) /\ reqs[q].success > 0
       /\ products # InitialProducts

\* The preview read every matched product's price as the catalog had it
\* before any commit.
ReadInitialCatalog(rq) ==
    \A k \in DOMAIN rq.enriched :
       rq.enriched[k].found =>
          rq.enriched[k].current_price =
             <<InitialProducts[rq.enriched[k].product_id].price>>

\* C7: a preview and a commit of the same price list over the same
\* catalog agree: an entry is found in the preview exactly when the commit
\* does not report it as not found, both resolve it to the same product,
\* and the price change the preview shows is the entry's price minus the
\* old price the commit records in price_history for the entry.
C7_PreviewAgreesWithCommit ==
    \A r, q \in Reqs :
       LET a == reqs[r]
           b == reqs[q]
       IN  (/\ a.endpoint = "preview" /\ a.pc = "done" /\ a.status = 200
            /\ Commit(b) /\ b.pc = "done" /\ b.status = 200
            /\ ReadInitialCatalog(a))
           => \A k \in DOMAIN b.items :
                 /\ a.enriched[k].found
                    <=> ~ \E e \in Range(b.errors) :
                            e.line = k /\ e.reason = NotFoundReason
                 /\ \A j \in Rows(price_history, q, k) :
                       /\ a.enriched[k].product_id =
                             price_history[j].product_id
                       /\ a.enriched[k].price_change =
                             <<b.items[k].price - price_history[j].price>>

\* The upload carries a file or a non-empty text field.
Provided == upload.file \/ upload.content # <<>>

\* C8: both preview entry points return, for every parsed entry, its
\* match result (found flag, matched product, current price, price
\* change), and a price list with entries is never answered with an error
\* on account of validation messages.
C8_PreviewReturnsMatchResults ==
    \A r \in Reqs :
       (Previewing(reqs[r]) /\ reqs[r].pc = "done" /\ reqs[r].items # <<>>)
       => /\ reqs[r].status = 200
          /\ DOMAIN reqs[r].body.items = DOMAIN reqs[r].items
          /\ \A k \in DOMAIN reqs[r].items :
                {"found", "product_id", "current_price", "price_change"}
                   \subseteq DOMAIN reqs[r].body.items[k]

\* C9: on the commit path a price list with any validation message is
\* answered 400 with the messages, and updatePrices is not run: no entry
\* is counted and no row is written for the request.
C9_ValidationBlocksCommit ==
    \A r \in Reqs :
       (/\ Commit(reqs[r]) /\ Provided
        /\ validatePriceData(reqs[r].items) # <<>>)
       => /\ reqs[r].pc = "done"
          /\ reqs[r].status = 400
          /\ reqs[r].body = [error |-> "Validation failed",
                             details |-> validatePriceData(reqs[r].items)]
          /\ reqs[r].success = 0 /\ reqs[r].failed = 0
          /\ \A j \in DOMAIN price_history : price_history[j].by[1] # r

\* A commit of a list with a duplicate entry was refused.
C9_Witness ==
    \E r \in Reqs :
       /\ Commit(reqs[r]) /\ reqs[r].pc = "done" /\ reqs[r].status = 400
       /\ Len(reqs[r].items) = 2
       /\ \E m \in Range(reqs[r].body.details) : m.kind = "duplicate"

\* A price list was sent and the parser got no entry from it.
NothingParsed(rq) ==
    rq.pc # "idle" /\ Provided /\ parsePriceData(upload.content) = <<>>

\* C10: when the parser yields no entry, validatePriceData returns exactly
\* one top-level message and no per-entry message, and every price-list
\* endpoint that received the content, preview or commit, answers 400.
C10_EmptyListIs400Everywhere ==
    \A r \in Reqs :
       NothingParsed(reqs[r])
       => /\ validatePriceData(parsePriceData(upload.content))
                = <<Message("unrecognized", 0, <<>>)>>
          /\ reqs[r].pc = "done"
          /\ reqs[r].status = 400

\* ------------------------------------------------------------------------
\* Properties of the parsers
\* ------------------------------------------------------------------------

\* The strategy by first-match priority: semicolon, tab, comma when the
\* first line splits on it, else freeform ("").
Priority(trimmed) ==
    IF Includes(trimmed, <<";">>) THEN ";"
    ELSE IF Includes(trimmed, <<"\t">>) THEN "\t"
    ELSE IF Len(Split(Split(trimmed, "\n")[1], ",")) >= 2 THEN ","
    ELSE ""

\* A request whose handler has parsed the price list.
HasParsed(rq) == rq.pc = "done" /\ rq.endpoint # "none"

\* C11: every format detector parses by strict priority semicolon > tab >
\* comma > freeform: what the backend's parsePriceData and the admin
\* panel's parsePrices return is the price list split on the first of
\* these the input contains.
C11_DetectorFollowsPriority ==
    \A r \in Reqs :
       HasParsed(reqs[r]) =>
          IF reqs[r].endpoint = "prices"
          THEN reqs[r].items =
                  ParseTrimmed(Trim(upload.content),
                               Priority(Trim(upload.content)))
          ELSE Priority(Trim(upload.content)) # ""
               => reqs[r].items =
                     ClientParseLines(Split(Trim(upload.content), "\n"),
                                      Priority(Trim(upload.content)))

\* The currency words the price parser is to strip, in lower case: "rub"
\* in Cyrillic and in Latin letters.
CurrencyWords == { <<"cyr_r","cyr_u","cyr_b">>, <<"r","u","b">> }

\* The currency symbols and blanks it is to strip.
CurrencySymbols == {"RUBLE", "$", "EURO"} \cup WhiteSpace

\* s without the occurrences of the currency words, in any letter case.
RECURSIVE WithoutWords(_)
WithoutWords(s) ==
    IF s = <<>> THEN <<>>
    ELSE IF Len(s) >= 3 /\ ToLowerCase(SubSeq(s, 1, 3)) \in CurrencyWords
    THEN WithoutWords(SubSeq(s, 4, Len(s)))
    ELSE <<Head(s)>> \o WithoutWords(Tail(s))

\* The price of a field as the price rules give it: currency symbols,
\* currency words and blanks stripped, the comma a decimal point, read as a
\* floating-point number, NoPrice when that is no number or not positive.
StatedPrice(field) ==
    PriceOrNull(ParseFloat(CommaToDot(
        WithoutWords(Without(field, CurrencySymbols)))))

\* The lines of a price list that are not blank.
DataLines(content) ==
    SelectSeq(Split(Trim(content), "\n"), LAMBDA line : Trim(line) # <<>>)

\* A line of two or three fields with a valid price in the last and an
\* identifier before it.
WellFormedFields(fields) ==
    /\ Len(fields) \in {2, 3}
    /\ StatedPrice(fields[Len(fields)]) # NoPrice
    /\ \E k \in 1..(Len(fields) - 1) : fields[k] # <<>>

\* A delimited price list with no header line, every line well-formed.
WellFormed(content) ==
    /\ Priority(Trim(content)) # ""
    /\ DataLines(content) # <<>>
    /\ ~IsHeader(DataLines(content)[1])
    /\ \A k \in DOMAIN DataLines(content) :
          WellFormedFields(TrimEach(Split(Trim(DataLines(content)[k]),
                                          Priority(Trim(content)))))

\* C12: the backend parser emits exactly one entry for each line of a
\* well-formed delimited price list without a header, and for any input
\* no more entries than the input has non-blank lines; it returns for
\* every input.
C12_OneEntryPerWellFormedLine ==
    \A r \in Reqs :
       (HasParsed(reqs[r]) /\ reqs[r].endpoint = "prices")
       => /\ Len(reqs[r].items) <= Len(DataLines(upload.content))
          /\ WellFormed(upload.content)
             => Len(reqs[r].items) = Len(DataLines(upload.content))
          /\ reqs[r].status \in {200, 400}

\* The backend parsed a well-formed list of two lines, one of two fields
\* and one of three.
C12_Witness ==
    \E r \in Reqs :
       /\ HasParsed(reqs[r]) /\ reqs[r].endpoint = "prices"
       /\ WellFormed(upload.content)
       /\ Len(reqs[r].items) = 2
       /\ reqs[r].items[1].name = <<>>
       /\ reqs[r].items[2].name # <<>>

\* A line that contains a header keyword in any letter case.
LooksLikeHeader(line) ==
    \E w \in { <<"cyr_a","cyr_r","cyr_t","cyr_i","cyr_k","cyr_u","cyr_l">>,
               <<"a","r","t","i","c","l","e">>,
               <<"cyr_n","cyr_a","cyr_z","cyr_v","cyr_a","cyr_n","cyr_i","cyr_e">>,
               <<"n","a","m","e">> } :
       \E i \in 1..Len(line) :
          /\ i + Len(w) - 1 <= Len(line)
          /\ \A k \in 1..Len(w) : ToLowerChar(line[i + k - 1]) = w[k]

\* The entries of the lines from the given one on, each line parsed on its
\* own in the mode the detector chose.
EntriesFrom(trimmed, first) ==
    IF Delimiter(trimmed) = ""
    THEN ParseTextFrom(Split(trimmed, "\n"), first)
    ELSE ParseCSVFrom(Split(trimmed, "\n"), first, Delimiter(trimmed))

\* C13 as stated: in every mode the detector can select, freeform too, a
\* first line with a header keyword gives no entry, and every other line
\* gives the entry it holds.
C13_HeaderExcludedInEveryMode ==
    \A r \in Reqs :
       (HasParsed(reqs[r]) /\ reqs[r].endpoint = "prices")
       => reqs[r].items =
             EntriesFrom(Trim(upload.content),
                         IF LooksLikeHeader(Split(Trim(upload.content), "\n")[1])
                         THEN 2 ELSE 1)

\* C13: in the three delimited modes (';', tab, ',') a first line with a
\* header keyword in any letter case gives no entry; no other line is
\* dropped for looking like a header; in freeform mode no line is taken
\* for a header and a first line such as "name: 5" gives an entry.
C13_HeaderExcludedWhenDelimited ==
    \A r \in Reqs :
       (HasParsed(reqs[r]) /\ reqs[r].endpoint = "prices")
       => reqs[r].items =
             EntriesFrom(Trim(upload.content),
                         IF /\ Delimiter(Trim(upload.content)) # ""
                            /\ LooksLikeHeader(Split(Trim(upload.content), "\n")[1])
                         THEN 2 ELSE 1)

\* The backend parsed a delimited list of two lines that both look like a
\* header, the first in capitals: only the second gave an entry.
C13_Witness ==
    \E r \in Reqs :
       /\ HasParsed(reqs[r]) /\ reqs[r].endpoint = "prices"
       /\ Delimiter(Trim(upload.content)) # ""
       /\ Len(DataLines(upload.content)) = 2
       /\ DataLines(upload.content)[1] # ToLowerCase(DataLines(upload.content)[1])
       /\ \A k \in 1..2 : LooksLikeHeader(DataLines(upload.content)[k])
       /\ Len(reqs[r].items) = 1

\* C14: every entry parsePriceData emits, in every mode, has an article or
\* a name that is present and not empty, and a price that is positive and
\* finite.
C14_EntriesHaveIdentifierAndFinitePrice ==
    \A r \in Reqs :
       (HasParsed(reqs[r]) /\ reqs[r].endpoint = "prices")
       => \A k \in DOMAIN reqs[r].items :
             /\ reqs[r].items[k].article # <<>> \/ reqs[r].items[k].name # <<>>
             /\ reqs[r].items[k].price > 0
             /\ reqs[r].items[k].price < Infinity

\* C15: for a line of an identifier and a price field, the price parser
\* strips only the currency symbols, the currency words and blanks, reads
\* the comma as the decimal separator, and rejects the field exactly when
\* what remains is no number or is not positive: the entry's price is the
\* stated price of the field, and there is no entry when there is none.
C15_PriceIsTheStatedPrice ==
    \A r \in Reqs :
       LET lines == DataLines(upload.content)
           fields == TrimEach(Split(Trim(lines[1]), ";"))
       IN  (/\ HasParsed(reqs[r]) /\ reqs[r].endpoint = "prices"
            /\ Len(lines) = 1 /\ Len(fields) = 2 /\ ~LooksLikeHeader(lines[1]))
           => IF StatedPrice(fields[2]) = NoPrice
              THEN reqs[r].items = <<>>
              ELSE /\ Len(reqs[r].items) = 1
                   /\ reqs[r].items[1].price = StatedPrice(fields[2])


\* ------------------------------------------------------------------------
\* Properties of the matching
\* ------------------------------------------------------------------------

\* The products whose article is the entry's.
ArticleHits(item) ==
    IF item.article = <<>> THEN {}
    ELSE {q \in ProductIds : InitialProducts[q].article = item.article}

\* The products the entry's name selects.
NameHits(item) ==
    IF item.name = <<>> THEN {} ELSE RowsByName(InitialProducts, item.name)

\* p is what the ordered resolution of item allows: the product of its
\* article; with no such product, one its name selects; with neither, none.
OrderedFirstHit(item, p) ==
    IF ArticleHits(item) # {} THEN ArticleHits(item) = {p}
    ELSE IF NameHits(item) # {} THEN p \in NameHits(item)
    ELSE p = NoProduct

\* C16: resolution is ordered and first hit wins: an entry whose article is
\* a product's resolves to that product whatever its name; the name decides
\* only when the article is absent or matches nothing; an entry neither
\* lookup hits is not found; the result is at most one product.  Both the
\* committer and the preview resolve this way.
C16_ResolutionIsOrdered ==
    \A r \in Reqs :
       LET rq == reqs[r]
       IN  /\ (Commit(rq) /\ rq.pc \in {"insert", "update"})
                 => /\ Len(rq.product) = 1
                    /\ OrderedFirstHit(rq.items[rq.i], rq.product[1].id)
           /\ \A e \in Range(rq.errors) :
                 e.reason = NotFoundReason
                    => OrderedFirstHit(rq.items[e.line], NoProduct)
           /\ \A k \in DOMAIN rq.enriched :
                 /\ OrderedFirstHit(rq.items[k], rq.enriched[k].product_id)
                 /\ rq.enriched[k].found
                       = (rq.enriched[k].product_id \in ProductIds)

\* The entry with p1's article and a name only p2 has resolved to p1, in a
\* commit run and in a preview.
C16_Witness ==
    \E r, s \in Reqs :
       /\ Commit(reqs[r]) /\ reqs[r].pc = "insert"
       /\ ArticleHits(reqs[r].items[reqs[r].i]) = {"p1"}
       /\ NameHits(reqs[r].items[reqs[r].i]) = {"p2"}
       /\ reqs[r].product[1].id = "p1"
       /\ \E k \in DOMAIN reqs[s].enriched :
             /\ ArticleHits(reqs[s].items[k]) = {"p1"}
             /\ NameHits(reqs[s].items[k]) = {"p2"}
             /\ reqs[s].enriched[k].product_id = "p1"

\* Some product's name contains the entry's name, letters compared in
\* either case.
NameContained(item) ==
    \E q \in ProductIds :
       Includes(ToLowerCase(InitialProducts[q].name), ToLowerCase(item.name))

\* An entry the name lookup decides: it has a name, and no article or an
\* article no product has.
ResolvedByName(item) == item.name # <<>> /\ ArticleHits(item) = {}

\* C17: an entry resolved by name is found if and only if some product's
\* name contains the entry's name as a case-insensitive substring, in the
\* commit run and in the preview, and the preview's price change of a found
\* entry is its price less the matched product's current price.
C17_FoundIffNameContained ==
    \A r \in Reqs :
       LET rq == reqs[r]
       IN  /\ (Commit(rq) /\ rq.pc \in {"insert", "update"}
               /\ ResolvedByName(rq.items[rq.i]))
                 => NameContained(rq.items[rq.i])
           /\ \A e \in Range(rq.errors) :
                 (e.reason = NotFoundReason /\ ResolvedByName(rq.items[e.line]))
                    => ~NameContained(rq.items[e.line])
           /\ \A k \in DOMAIN rq.enriched :
                 ResolvedByName(rq.items[k])
                    => /\ rq.enriched[k].found = NameContained(rq.items[k])
                       /\ rq.enriched[k].found
                             => rq.enriched[k].price_change =
                                   <<rq.items[k].price
                                        - rq.enriched[k].current_price[1]>>

\* C18: matching is deterministic: while the catalog is as it was, two
\* resolutions of the same entry return the same match result (found flag,
\* product, current price, price change), also when several products'
\* names contain the entry's name.
C18_MatchingIsDeterministic ==
    products = InitialProducts
       => \A r, s \in Reqs :
             \A k \in (DOMAIN reqs[r].enriched) \cap (DOMAIN reqs[s].enriched) :
                reqs[r].items[k] = reqs[s].items[k]
                   => reqs[r].enriched[k] = reqs[s].enriched[k]

\* ------------------------------------------------------------------------
\* Properties of concurrent runs and of the history
\* ------------------------------------------------------------------------

\* Request r takes a step the store does not fail.
StoreApplies(r) == reqs'[r] # reqs[r] /\ failures' = failures

\* C19: commit runs over the same product are not serialized.  A run
\* inserts the history record of the price it read at its lookup, whatever
\* the product's price has become since, and then overwrites the price
\* without comparing it with what it read, counting a success.
C19_RunsAreNotSerialized ==
    [][\A r \in Reqs :
         LET rq == reqs[r]
         IN  /\ (rq.pc = "insert" /\ StoreApplies(r))
                   => price_history' =
                         Append(price_history,
                                [product_id |-> rq.product[1].id,
                                 price |-> rq.product[1].price,
                                 by |-> <<r, rq.i>>])
             /\ (rq.pc = "update" /\ StoreApplies(r))
                   => /\ products'[rq.product[1].id].price =
                            RoundDecimal(rq.items[rq.i].price)
                      /\ reqs'[r].success = rq.success + 1
      ]_vars

\* The lost update: two runs wrote history records of one product with the
\* same price, the product holds the price of the last writer, and the
\* price of the other run, which has returned counting that entry a
\* success, is in no history record.
C19_Witness ==
    \E r, s \in Reqs : \E k \in DOMAIN reqs[r].items, j \in DOMAIN reqs[s].items :
       /\ r # s
       /\ reqs[r].pc = "done" /\ Commit(reqs[r])
       /\ reqs[r].status = 200 /\ reqs[r].success = Len(reqs[r].items)
       /\ \E a \in Rows(price_history, r, k), b \in Rows(price_history, s, j) :
             /\ a < b
             /\ price_history[a].product_id = price_history[b].product_id
             /\ price_history[a].price = price_history[b].price
             /\ products[price_history[a].product_id].price =
                   RoundDecimal(reqs[s].items[j].price)
       /\ reqs[r].items[k].price # reqs[s].items[j].price
       /\ \A h \in DOMAIN price_history :
             price_history[h].price # RoundDecimal(reqs[r].items[k].price)

\* C20: price_history is append-only: no step of the system (a price-list
\* commit, a product update, a product deletion) modifies or deletes a
\* record once inserted, so the set of records only ever grows.
C20_HistoryIsAppendOnly ==
    [][Range(price_history) \subseteq Range(price_history')]_vars

\* ------------------------------------------------------------------------
\* Further properties of the parsers and of the validator
\* ------------------------------------------------------------------------

\* The first non-empty line of a price list: the first line of its trim.
FirstLine(content) == Split(Trim(content), "\n")[1]

\* C21 as stated: the format detector decides on the first non-empty line
\* only: a price list is parsed with the strategy detected for its first
\* non-empty line taken on its own, whatever its later lines contain.
C21_DetectorReadsFirstLineOnly ==
    \A r \in Reqs :
       (HasParsed(reqs[r]) /\ reqs[r].endpoint = "prices")
          => reqs[r].items =
                ParseTrimmed(Trim(upload.content),
                             Delimiter(FirstLine(upload.content)))

\* The fields of a line in delimited mode.
Fields(line, delimiter) == TrimEach(Split(Trim(line), delimiter))

\* The entry a line of exactly two fields is to yield: the first field as
\* the article if it matches ^[A-Za-z0-9_-]+$, as the name if not, the
\* second as the price; none without a price or a second field.
TwoFieldEntries(fields) ==
    IF Len(fields) # 2 \/ parsePrice(fields[2]) = NoPrice THEN <<>>
    ELSE IF IsArticle(fields[1])
         THEN <<[article |-> fields[1], name |-> <<>>,
                 price |-> parsePrice(fields[2])]>>
         ELSE <<[article |-> <<>>, name |-> fields[1],
                 price |-> parsePrice(fields[2])]>>

RECURSIVE TwoFieldFrom(_, _, _)
TwoFieldFrom(lines, i, delimiter) ==
    IF i > Len(lines) THEN <<>>
    ELSE TwoFieldEntries(Fields(lines[i], delimiter))
            \o TwoFieldFrom(lines, i + 1, delimiter)

\* A delimited price list with no header and no line of three fields or
\* more.
AtMostTwoFields(content) ==
    /\ Delimiter(Trim(content)) # ""
    /\ ~IsHeader(FirstLine(content))
    /\ \A k \in DOMAIN Split(Trim(content), "\n") :
          Len(Fields(Split(Trim(content), "\n")[k],
                     Delimiter(Trim(content)))) <= 2

\* C22: in delimited mode a line of exactly two fields with a valid price
\* yields one entry with exactly one identifier, the first field as article
\* if it matches ^[A-Za-z0-9_-]+$ and as name otherwise, priced by the
\* second field; a line of fewer fields or without a price yields none.
C22_TwoFieldsYieldOneIdentifier ==
    \A r \in Reqs :
       (HasParsed(reqs[r]) /\ reqs[r].endpoint = "prices"
        /\ AtMostTwoFields(upload.content))
          => /\ reqs[r].items =
                   TwoFieldFrom(Split(Trim(upload.content), "\n"), 1,
                                Delimiter(Trim(upload.content)))
             /\ \A k \in DOMAIN reqs[r].items :
                   (reqs[r].items[k].article # <<>>)
                      # (reqs[r].items[k].name # <<>>)

\* The validator's messages a finished POST /prices request answered with.
Details(rq) == IF rq.status = 400 THEN rq.body.details ELSE <<>>

\* An entry's key: its article if present, otherwise its name.
KeyOf(entry) == IF entry.article # <<>> THEN entry.article ELSE entry.name

\* C23: validatePriceData reports a duplicate for entry i if and only if an
\* earlier entry has the same key (the article if present, otherwise the
\* name), at most once per entry and naming that key; it only returns
\* messages: the entry list the handler holds afterwards is the parser's,
\* unchanged.
C23_DuplicateIffEarlierKey ==
    \A r \in Reqs :
       (HasParsed(reqs[r]) /\ reqs[r].endpoint = "prices")
          => /\ reqs[r].items = parsePriceData(upload.content)
             /\ \A i \in DOMAIN reqs[r].items :
                   LET dup == {m \in DOMAIN Details(reqs[r]) :
                                 /\ Details(reqs[r])[m].kind = "duplicate"
                                 /\ Details(reqs[r])[m].line = i}
                   IN  /\ (dup # {}) =
                             (\E j \in 1..(i - 1) :
                                 KeyOf(reqs[r].items[j]) = KeyOf(reqs[r].items[i]))
                       /\ Cardinality(dup) <= 1
                       /\ \A m \in dup :
                             Details(reqs[r])[m].key = KeyOf(reqs[r].items[i])

\* The validator reported entry 2, which has an article and a name, as a
\* duplicate of entry 1 by its article.
C23_Witness ==
    \E r \in Reqs :
       /\ HasParsed(reqs[r]) /\ reqs[r].endpoint = "prices"
       /\ Len(reqs[r].items) = 2
       /\ reqs[r].items[2].article # <<>> /\ reqs[r].items[2].name # <<>>
       /\ reqs[r].items[1].name = <<>>
       /\ \E m \in DOMAIN Details(reqs[r]) :
             Details(reqs[r])[m] =
                Message("duplicate", 2, reqs[r].items[2].article)

\* ------------------------------------------------------------------------
\* Further properties of updatePrices
\* ------------------------------------------------------------------------

\* The error records of a run are those of entries it has come to, by
\* position, in increasing order.
ErrorsInLineOrder(rq) ==
    /\ \A k \in DOMAIN rq.errors :
          /\ rq.errors[k].line \in 1..Len(rq.items)
          /\ rq.errors[k].line <= rq.i
          /\ rq.errors[k].article = rq.items[rq.errors[k].line].article
          /\ rq.errors[k].name = rq.items[rq.errors[k].line].name
    /\ \A k \in 1..(Len(rq.errors) - 1) :
          rq.errors[k].line < rq.errors[k + 1].line

\* A run moves from an entry to the next one only, and a record it pushes
\* is that of the entry it leaves.
OneEntryAtATime(rq, next) ==
    /\ next.i \in {rq.i, rq.i + 1}
    /\ next.errors # rq.errors
          => /\ Len(next.errors) = Len(rq.errors) + 1
             /\ SubSeq(next.errors, 1, Len(rq.errors)) = rq.errors
             /\ next.errors[Len(next.errors)].line = rq.i

\* C24: updatePrices processes the entries strictly in list order, and the
\* line of an error record is the 1-based position of its entry in the
\* parsed entry sequence: the errors list is in strictly increasing line
\* order, without repeats, every line in 1..N.
C24_ErrorsFollowListOrder ==
    /\ [](\A r \in Reqs : Commit(reqs[r]) => ErrorsInLineOrder(reqs[r]))
    /\ [][\A r \in Reqs :
            InRun(reqs[r]) => OneEntryAtATime(reqs[r], reqs'[r])]_vars

\* A run returned with an error record for each of its two entries.
C24_Witness ==
    \E r \in Reqs :
       /\ Commit(reqs[r]) /\ reqs[r].pc = "done" /\ reqs[r].status = 200
       /\ Len(reqs[r].errors) = 2
       /\ reqs[r].errors[1].line = 1
       /\ reqs[r].errors[2].line = 2

\* ------------------------------------------------------------------------
\* Further properties of the matching
\* ------------------------------------------------------------------------

\* The products whose article is the entry's but for the case of letters.
ArticleHitsAnyCase(item) ==
    IF item.article = <<>> THEN {}
    ELSE {q \in ProductIds :
            ToLowerCase(InitialProducts[q].article) = ToLowerCase(item.article)}

\* C25 as stated: an entry's article is matched against the catalog's
\* articles whatever the case of its letters: an entry whose article differs from a
\* product's only in letter case resolves to that product, in the preview
\* and in the commit run.
C25_ArticleMatchIgnoresCase ==
    \A r \in Reqs :
       LET rq == reqs[r]
       IN  /\ \A k \in DOMAIN rq.enriched :
                 ArticleHitsAnyCase(rq.items[k]) # {}
                    => rq.enriched[k].product_id
                          \in ArticleHitsAnyCase(rq.items[k])
           /\ \A e \in Range(rq.errors) :
                 e.reason = NotFoundReason
                    => ArticleHitsAnyCase(rq.items[e.line]) = {}
           /\ (Commit(rq) /\ rq.pc \in {"insert", "update"}
               /\ ArticleHitsAnyCase(rq.items[rq.i]) # {})
                 => rq.product[1].id \in ArticleHitsAnyCase(rq.items[rq.i])

\* The entries a run is done with.
Processed(rq) ==
    IF rq.pc = "done" THEN (IF rq.status = 200 THEN Len(rq.items) ELSE 0)
    ELSE IF InRun(rq) THEN rq.i - 1
    ELSE 0

\* The run leaves the entry at hand.
LeavesEntry(rq, next) == InRun(rq) /\ (next.pc = "done" \/ next.i # rq.i)

\* C26: the result of updatePrices over N entries has success + failed = N
\* and as many error records as failed; during the run the two counters
\* never decrease and each entry adds exactly one to exactly one of them.
C26_CountersPartitionTheEntries ==
    /\ [](\A r \in Reqs :
            Commit(reqs[r])
               => /\ reqs[r].success + reqs[r].failed = Processed(reqs[r])
                  /\ Len(reqs[r].errors) = reqs[r].failed
                  /\ (reqs[r].pc = "done" /\ reqs[r].status = 200)
                        => reqs[r].body = Result(reqs[r]))
    /\ [][\A r \in Reqs :
            LET rq == reqs[r]
                next == reqs'[r]
            IN  Commit(rq)
                   => /\ next.success >= rq.success
                      /\ next.failed >= rq.failed
                      /\ IF LeavesEntry(rq, next)
                         THEN (next.success - rq.success)
                                 + (next.failed - rq.failed) = 1
                         ELSE next.success = rq.success
                                 /\ next.failed = rq.failed]_vars

\* A run over two entries returned one success and one failure.
C26_Witness ==
    \E r \in Reqs :
       /\ Commit(reqs[r]) /\ reqs[r].pc = "done" /\ reqs[r].status = 200
       /\ Len(reqs[r].items) = 2
       /\ reqs[r].body.success = 1
       /\ reqs[r].body.failed = 1
       /\ Len(reqs[r].body.errors) = 1

\* The price_history records of product p, in insertion order.
HistoryOf(p) == SelectSeq(price_history, LAMBDA h : h.product_id = p)

\* The price the entry behind a history record sets.
Written(h) == RoundDecimal(reqs[h.by[1]].items[h.by[2]].price)

\* The run behind a history record has still to make the entry's update.
UpdatePending(h) ==
    reqs[h.by[1]].pc = "update" /\ reqs[h.by[1]].i = h.by[2]

\* The records of p and then its price are the prices p has held: the
\* first record is the price p started with, every later one the price
\* written after the record before it, and the current price the one
\* written after the last.
AuditChain(p) ==
    LET H == HistoryOf(p)
    IN  /\ \A k \in DOMAIN H :
              H[k].price = IF k = 1 THEN InitialProducts[p].price
                           ELSE Written(H[k - 1])
        /\ products[p].price =
              IF H = <<>> THEN InitialProducts[p].price
              ELSE IF UpdatePending(H[Len(H)]) THEN H[Len(H)].price
              ELSE Written(H[Len(H)])

\* C27: with the commit runs one after the other and every store operation
\* succeeding, a product's price_history records in insertion order
\* followed by its current price are exactly the prices the product has
\* held, one record for every overwrite, also when two entries of one list
\* resolve to the product and when an entry's price is the current price.
C27_AuditChainWhenSequential ==
    \A p \in ProductIds :
       /\ AuditChain(p)
       /\ (\A r \in Reqs : ~InRun(reqs[r]))
             => Len(HistoryOf(p)) =
                   Cardinality({x \in Reqs \X (1..MaxLines) :
                      /\ Commit(reqs[x[1]]) /\ reqs[x[1]].status = 200
                      /\ x[2] \in DOMAIN reqs[x[1]].items
                      /\ \A e \in Range(reqs[x[1]].errors) : e.line # x[2]
                      /\ \E j \in Rows(price_history, x[1], x[2]) :
                            price_history[j].product_id = p})

\* A finished run whose two entries both resolved to p1, the first of them
\* setting the price p1 already had.
C27_Witness ==
    \E r \in Reqs :
       /\ reqs[r].pc = "done" /\ reqs[r].success = 2
       /\ \E a \in Rows(price_history, r, 1), b \in Rows(price_history, r, 2) :
             /\ price_history[a].product_id = "p1"
             /\ price_history[b].product_id = "p1"
             /\ price_history[a].price = RoundDecimal(reqs[r].items[1].price)

\* The operation of request r, which takes this step, has inserted a
\* price_history record of product p holding price.
RecordedBy(r, p, price) ==
    /\ reqs'[r] # reqs[r]
    /\ \E j \in DOMAIN price_history :
          /\ price_history[j].by = <<r, reqs[r].i>>
          /\ price_history[j].product_id = p
          /\ price_history[j].price = price

\* C28: whenever an operation (the committer updatePrices, PUT
\* /api/products/:id, the admin panel's uploadPrices) overwrites a
\* product's price with a different value, that operation has inserted a
\* price_history record of the product holding the price it overwrites.
C28_OverwriteRecordsPreviousPrice ==
    [][\A p \in (DOMAIN products) \cap (DOMAIN products') :
          products'[p].price # products[p].price
             => \E r \in Reqs : RecordedBy(r, p, products[p].price)]_vars

\* The strategy as a function of whether the text holds a semicolon, whether
\* it holds a tab, and its first non-empty line.
StrategyOf(semicolon, tab, first) ==
    IF semicolon THEN ";"
    ELSE IF tab THEN "\t"
    ELSE IF Len(Split(first, ",")) >= 2 THEN ","
    ELSE ""

\* C21, amended: the detector's decision depends on whether a semicolon
\* occurs anywhere in the trimmed text, whether a tab occurs anywhere in it, and on
\* the first non-empty line for the comma test only: inputs that agree on
\* these three are parsed with the same strategy, and a semicolon or tab
\* on a later line does change it.
C21_DetectorReadsDelimitersAnywhere ==
    \A r \in Reqs :
       (HasParsed(reqs[r]) /\ reqs[r].endpoint = "prices")
          => reqs[r].items =
                ParseTrimmed(Trim(upload.content),
                             StrategyOf(Includes(Trim(upload.content), <<";">>),
                                        Includes(Trim(upload.content), <<"\t">>),
                                        FirstLine(upload.content)))

\* A list whose first line has a comma and no semicolon was parsed on the
\* semicolon of its second line: the entry of the first line is lost.
C21_Witness ==
    \E r \in Reqs :
       /\ HasParsed(reqs[r]) /\ reqs[r].endpoint = "prices"
       /\ DelimiterOfFirstLine(Trim(upload.content)) = ","
       /\ Includes(upload.content, <<";">>)
       /\ reqs[r].items = parseCSV(Trim(upload.content), ";")
       /\ reqs[r].items # parseCSV(Trim(upload.content), ",")
       /\ reqs[r].items # <<>>

\* p is what an entry no product's article equals resolves to: a product
\* its name selects, or none.
ResolvedWithoutArticle(item, p) ==
    IF NameHits(item) # {} THEN p \in NameHits(item) ELSE p = NoProduct

\* C25, amended: the backend matches an entry's article exactly, letter case
\* included: an entry whose article differs from a product's article in
\* letter case only does not resolve to that product by article; it
\* resolves by its name or is not found, in the preview and in the commit
\* run alike.
C25_ArticleMatchIsExact ==
    \A r \in Reqs :
       LET rq == reqs[r]
       IN  /\ \A k \in DOMAIN rq.enriched :
                 ArticleHits(rq.items[k]) = {}
                    => ResolvedWithoutArticle(rq.items[k],
                                              rq.enriched[k].product_id)
           /\ (Commit(rq) /\ rq.pc \in {"insert", "update"}
               /\ ArticleHits(rq.items[rq.i]) = {})
                 => ResolvedWithoutArticle(rq.items[rq.i], rq.product[1].id)
           /\ (Commit(rq) /\ Processed(rq) >= 1
               /\ ArticleHits(rq.items[1]) = {} /\ NameHits(rq.items[1]) = {})
                 => \E e \in Range(rq.errors) :
                       e.line = 1 /\ e.reason = NotFoundReason

\* The entry "a1", p1's article in lower case and no name, was reported not
\* found by a preview and recorded not found by a commit run.
C25_Witness ==
    \E r, s \in Reqs :
       /\ \E k \in DOMAIN reqs[r].enriched :
             /\ ArticleHitsAnyCase(reqs[r].items[k]) = {"p1"}
             /\ ArticleHits(reqs[r].items[k]) = {}
             /\ ~reqs[r].enriched[k].found
       /\ Commit(reqs[s])
       /\ \E e \in Range(reqs[s].errors) :
             /\ ArticleHitsAnyCase(reqs[s].items[e.line]) = {"p1"}
             /\ e.reason = NotFoundReason

\* ------------------------------------------------------------------------
\* Properties of the orders routes
\* ------------------------------------------------------------------------

\* Request r makes the conditional update of a claim in this step.
ClaimStep(r) == reqs[r].pc = "idle" /\ reqs'[r].endpoint = "claim"

\* A claim changes assigned_manager_id only from null, to its caller, and
\* then succeeds; on an assigned order it changes nothing and does not
\* succeed.
ClaimIsConditional(r) ==
    LET id == reqs'[r].id
    IN  IF orders[id].assigned_manager_id # NoManager
        THEN orders' = orders /\ reqs'[r].status # 200
        ELSE \/ /\ reqs'[r].status = 200
                /\ orders' = SetManager(orders, id, reqs'[r].user)
             \/ /\ reqs'[r].status # 200
                /\ orders' = orders

\* Of the concurrent claims of one order at most one has succeeded.
OneClaimWins ==
    \A r, s \in Reqs :
       (r # s /\ reqs[r].endpoint = "claim" /\ reqs[s].endpoint = "claim"
        /\ reqs[r].id = reqs[s].id)
          => ~(reqs[r].status = 200 /\ reqs[s].status = 200)

\* With no store failure, a claim that did not succeed is answered 409.
RefusedClaimIs409 ==
    \A r \in Reqs :
       (reqs[r].endpoint = "claim" /\ reqs[r].pc = "done" /\ failures = 0)
          => reqs[r].status \in {200, 409}

\* C29: under every interleaving, of the concurrent claims of an order by
\* different users at most one succeeds, setting assigned_manager_id to its
\* caller; a claim on an order already assigned never changes
\* assigned_manager_id and is answered with 409, never with success.
C29_ClaimIsExclusive ==
    /\ [](OneClaimWins /\ RefusedClaimIs409)
    /\ [][\A r \in Reqs : ClaimStep(r) => ClaimIsConditional(r)]_vars

\* Request r applies the clearing update of a release in this step.
ReleaseClears(r) ==
    /\ reqs[r].pc = "clear"
    /\ orders'[reqs[r].id].assigned_manager_id = NoManager
    /\ orders[reqs[r].id].assigned_manager_id # NoManager

\* C30: a release by a caller who is not an administrator clears
\* assigned_manager_id only if the order is assigned to that caller at the
\* moment the clearing update is applied, under every interleaving, also
\* when an assign or a claim by another user takes effect between the
\* handler's ownership check and its update.
C30_ReleaseClearsOwnOrderOnly ==
    [][\A r \in Reqs :
         (ReleaseClears(r) /\ Role(reqs[r].user) # "admin")
            => orders[reqs[r].id].assigned_manager_id = reqs[r].user]_vars

====
